---- MODULE Spec2Model ----
(***************************************************************************)
(* Model of the Vector Solutions training automation:                      *)
(*   - the participant matcher (choose_users_and_continue, add_users_flow) *)
(*   - the per-scenario flow (run_flow, main)                              *)
(*   - target resolution (find_by_label_like, fill_location_field,         *)
(*     submit_training, submit_form)                                       *)
(*   - the bounded retry and polling loops                                 *)
(*   - scenario selection (load_scenarios_from_csv + run_flow slicing)     *)
(* Strings are sequences of one-character strings, so that split, strip,   *)
(* upper-casing and substring search are computed as Python computes them. *)
(***************************************************************************)
EXTENDS Integers, Sequences, FiniteSets, TLC

(***************************************************************************)
(* Python string primitives                                                *)
(***************************************************************************)

\* str.upper() on one character of the alphabet used by the model
UpChar(c) ==
    CASE c = "i" -> "I"
      [] c = "l" -> "L"
      [] c = "o" -> "O"
      [] c = "u" -> "U"
      [] c = "r" -> "R"
      [] OTHER -> c

\* str.upper()
Upper(s) == [i \in 1..Len(s) |-> UpChar(s[i])]

RECURSIVE LStrip(_)
LStrip(s) == IF s # <<>> /\ Head(s) = " " THEN LStrip(Tail(s)) ELSE s

RECURSIVE RStrip(_)
RStrip(s) ==
    IF s # <<>> /\ s[Len(s)] = " " THEN RStrip(SubSeq(s, 1, Len(s) - 1)) ELSE s

\* str.strip()
Strip(s) == RStrip(LStrip(s))

\* "," in s
HasComma(s) == \E i \in 1..Len(s) : s[i] = ","

\* index of the first comma (0 when there is none)
FirstComma(s) ==
    IF HasComma(s) THEN CHOOSE i \in 1..Len(s) : s[i] = "," /\ \A j \in 1..(i-1) : s[j] # ","
    ELSE 0

\* s.split(",", 1)[0] and s.split(",", 1)[1], for s holding a comma
BeforeComma(s) == SubSeq(s, 1, FirstComma(s) - 1)
AfterComma(s) == SubSeq(s, FirstComma(s) + 1, Len(s))

\* str.split(): the whitespace-separated tokens, empty tokens dropped
RECURSIVE SplitWS(_)
SplitWS(s) ==
    LET t == LStrip(s)
        n == IF \E i \in 1..Len(t) : t[i] = " "
             THEN (CHOOSE i \in 1..Len(t) : t[i] = " " /\ \A j \in 1..(i-1) : t[j] # " ") - 1
             ELSE Len(t)
    IN IF t = <<>> THEN <<>>
       ELSE <<SubSeq(t, 1, n)>> \o SplitWS(SubSeq(t, n + 1, Len(t)))

\* " ".join(tokens)
RECURSIVE JoinSp(_)
JoinSp(tokens) ==
    IF tokens = <<>> THEN <<>>
    ELSE IF Len(tokens) = 1 THEN tokens[1]
    ELSE tokens[1] \o <<" ">> \o JoinSp(Tail(tokens))

\* s.replace(".", " ")
DotsToSpaces(s) == [i \in 1..Len(s) |-> IF s[i] = "." THEN " " ELSE s[i]]

\* needle occurs in hay (re.search of an escaped literal)
Contains(hay, needle) ==
    \E i \in 0..(Len(hay) - Len(needle)) : SubSeq(hay, i + 1, i + Len(needle)) = needle

\* re.compile(re.escape(term), re.I) searched in an element's text
ContainsCI(hay, needle) == Contains(Upper(hay), Upper(needle))

(***************************************************************************)
(* Name helpers of the matcher                                             *)
(***************************************************************************)

SUFFIXES == { <<"J","R">>, <<"S","R">>, <<"I","I">>, <<"I","I","I">>, <<"I","V">>,
              <<"J","R",".">>, <<"S","R",".">> }

\* _last_name(s)
_last_name(s0) ==
    LET s == Strip(s0)
        last_part == IF HasComma(s) THEN Strip(BeforeComma(s))
                     ELSE LET parts == SplitWS(s)
                          IN IF parts # <<>> THEN Strip(parts[Len(parts)]) ELSE s
        tokens0 == SplitWS(DotsToSpaces(last_part))
        tokens == IF tokens0 # <<>> /\ Upper(tokens0[Len(tokens0)]) \in SUFFIXES
                     /\ Len(tokens0) > 1
                  THEN SubSeq(tokens0, 1, Len(tokens0) - 1)
                  ELSE tokens0
        cleaned == Strip(JoinSp(tokens))
    IN IF s = <<>> THEN s
       ELSE IF cleaned # <<>> THEN cleaned ELSE last_part

\* _first_name_from_raw(raw)
_first_name_from_raw(raw0) ==
    LET raw == Strip(raw0)
    IN IF raw = <<>> THEN <<>>
       ELSE IF HasComma(raw)
            THEN LET parts == SplitWS(Strip(AfterComma(raw)))
                 IN IF parts # <<>> THEN parts[1] ELSE <<>>
            ELSE LET parts == SplitWS(raw)
                 IN IF Len(parts) >= 2 THEN parts[1] ELSE <<>>

\* the search variants of one roster name, a Python set (lines 787-807)
Variants(raw) ==
    LET full == IF HasComma(raw)
                THEN LET last == Strip(BeforeComma(raw))
                         first == Strip(AfterComma(raw))
                     IN IF first # <<>> /\ last # <<>>
                        THEN { last \o <<",", " ">> \o first, first \o <<" ">> \o last }
                        ELSE {}
                ELSE LET parts == SplitWS(raw)
                     IN IF Len(parts) >= 2
                        THEN { parts[Len(parts)] \o <<",", " ">> \o parts[1],
                               parts[1] \o <<" ">> \o parts[Len(parts)] }
                        ELSE {}
        last_only == _last_name(raw)
    IN {raw} \cup full \cup (IF last_only # <<>> THEN {last_only} ELSE {})

\* trial_terms of one variant: the variant, then its last name (lines 817-822)
TrialTerms(variant) ==
    LET lo == _last_name(variant)
    IN IF lo # <<>> /\ lo # variant THEN <<variant, lo>> ELSE <<variant>>

(***************************************************************************)
(* Bounds and the strings the model draws its inputs from                  *)
(***************************************************************************)
MaxNames == 2

sLi == <<"L","i">>
sAl == <<"A","l">>
sBo == <<"B","o">>
sWu == <<"W","u">>
CommaSp == <<",", " ">>

\* roster names handed to the matcher ("Li, Al", "Al Li", "Wu, Al", blank)
NamePool == { sLi \o CommaSp \o sAl, sAl \o <<" ">> \o sLi, sWu \o CommaSp \o sAl, <<" ">> }

\* texts of the items the surface lists ("Li, Al", "LI, BO"): two people who
\* share a last name, one of them shown in capitals
ItemPool == { sLi \o CommaSp \o sAl, Upper(sLi \o CommaSp \o sBo) }

SeqsUpTo(S, n) == UNION { [1..k -> S] : k \in 0..n }
Injective(q) == \A i, j \in 1..Len(q) : i # j => q[i] # q[j]
Remove(q, i) == SubSeq(q, 1, i - 1) \o SubSeq(q, i + 1, Len(q))

(***************************************************************************)
(* State                                                                   *)
(***************************************************************************)
VARIABLES
    \* --- participant matcher: choose_users_and_continue / add_users_flow ---
    matcher,          \* which of the two functions runs
    names,            \* the list of roster names passed in
    avail,            \* texts of the candidate items the surface lists, in order
    selectedItems,    \* texts of the items in the 'selected' sub-surface
    hasSelected,      \* selected.count() > 0: a selected sub-surface is detected
    ni,               \* position of the for loop over names
    variants,         \* variants of the current name not yet iterated
    trial_terms,      \* trial terms of the current variant not yet tried
    added,            \* the counter `added`
    misses,           \* the list `misses` (add_users_flow: the names warned about)
    outcome,          \* per name: "none", "skipped", "added" or "missing"
    addedItem,        \* per name: text of the item activated when it was recorded added
    lastTrial,        \* the last search trial: term, candidates, target, activations
    continueClicked,  \* the continuation control has been activated
    confirmed,        \* the wait after the continuation control saw the load complete
    mpc               \* position: "idle", "name", "variants", "continue", "returned", "raised"

VARIABLES
    \* --- run_flow ---
    fpc,              \* position in run_flow
    scen,             \* len(scenarios) after the max_scenarios slice
    si,               \* position of the loop over scenarios (1-based)
    loginSignal,      \* what the surface showed in do_login
    anyFieldFilled,   \* some form field has been filled in this run
    coreOutcome,      \* per core field of the current scenario: the outcome of its fill
    coreFailedFor,    \* scenarios in which the fill of some core field failed
    saveClickedFor,   \* scenarios for which 'Save and Add Users' was activated
    continueFor,      \* scenarios whose participant step returned
    submitClickedFor, \* scenarios for which the submit control was activated
    results,          \* the list `results`
    resultsWritten,   \* run_results_*.json has been written
    err,              \* an exception is propagating out of the try block
    cleaned           \* the cleanup steps of the finally block that ran

flowVars == <<fpc, scen, si, loginSignal, anyFieldFilled, coreOutcome, coreFailedFor,
              saveClickedFor, continueFor, submitClickedFor, results, resultsWritten,
              err, cleaned>>

matcherVars == <<matcher, names, avail, selectedItems, hasSelected, ni, variants,
                 trial_terms, added, misses, outcome, addedItem, lastTrial,
                 continueClicked, confirmed, mpc>>

VARIABLES
    \* --- target resolution: find_by_label_like, fill_location_field,
    \*     submit_training, submit_form ---
    rfn,              \* which function runs
    exists,           \* the surface: per locate strategy, an element exists for it
    rk,               \* the next strategy of the chain
    tried,            \* the strategies tried so far, in order
    handle,           \* the strategy whose element was returned or acted on (0: none)
    acted,            \* the strategies on whose element an action was attempted
    rres              \* "idle", "running", "returned" or "raised"

resolveVars == <<rfn, exists, rk, tried, handle, acted, rres>>

VARIABLES
    \* --- bounded retry and polling loops ---
    lkind,            \* which loop runs
    times,            \* retry: the bound `times`
    calls,            \* the outcome of each attempt so far, in order
    polls,            \* the number of loop iterations so far, modulo 2
    now,              \* time.time(), in ticks
    deadline,         \* the loop's deadline, in ticks
    lout,             \* the value returned or the exception raised ("none" if none)
    lres              \* "idle", "running", "returned" or "raised"

loopVars == <<lkind, times, calls, polls, now, deadline, lout, lres>>

VARIABLES
    \* --- scenario selection: load_scenarios_from_csv and the slice in run_flow ---
    columns,          \* the header names of the CSV
    rows,             \* the data rows of the CSV, in file order
    max_scenarios,    \* the --max-scenarios argument
    scenarios,        \* the list `scenarios`
    ppc               \* "idle", "load", "slice", "picked" or "raised"

pickVars == <<columns, rows, max_scenarios, scenarios, ppc>>

VARIABLES
    \* --- date-driven selection, two runs side by side ---
    dmodules,         \* the candidate list both runs are given
    dday,             \* the calendar day both runs happen on
    druns             \* per run: its program, configuration, time of day and pick

dailyVars == <<dmodules, dday, druns>>

VARIABLES
    \* --- pure functions applied to drawn inputs ---
    cfn,              \* the function applied
    cin,              \* its input
    couts             \* the results of its successive applications, in order

calcVars == <<cfn, cin, couts>>

VARIABLES
    \* --- write_json of the roster snapshot ---
    wfs,              \* the files of the output directory: name -> content
    wpc,              \* position in write_json
    wpayload,         \* the snapshot being written (its version number)
    wcalls            \* the calls of write_json made so far

fileVars == <<wfs, wpc, wpayload, wcalls>>

vars == <<matcherVars, flowVars, resolveVars, loopVars, pickVars, dailyVars, calcVars, fileVars>>

nonMatcherVars == <<flowVars, resolveVars, loopVars, pickVars, dailyVars, calcVars, fileVars>>
nonFlowVars == <<matcherVars, resolveVars, loopVars, pickVars, dailyVars, calcVars, fileVars>>
nonResolveVars == <<matcherVars, flowVars, loopVars, pickVars, dailyVars, calcVars, fileVars>>
nonLoopVars == <<matcherVars, flowVars, resolveVars, pickVars, dailyVars, calcVars, fileVars>>
nonPickVars == <<matcherVars, flowVars, resolveVars, loopVars, dailyVars, calcVars, fileVars>>
nonDailyVars == <<matcherVars, flowVars, resolveVars, loopVars, pickVars, calcVars, fileVars>>
nonCalcVars == <<matcherVars, flowVars, resolveVars, loopVars, pickVars, dailyVars, fileVars>>
nonFileVars == <<matcherVars, flowVars, resolveVars, loopVars, pickVars, dailyVars, calcVars>>

NoTrial == [ni |-> 0, term |-> <<>>, cand |-> <<>>, unread |-> {}, target |-> 0,
            acts |-> <<>>]

CoreFields == {"Location", "Duration", "Date Complete", "Instructor"}
FormFields == {"Location", "Checkbox Label", "Description", "Duration", "Date/Time",
               "Instructor"}
NoCore == [f \in CoreFields |-> "none"]

\* run_flow is not running
FlowIdle ==
    /\ fpc = "idle"
    /\ scen = 0
    /\ si = 1
    /\ loginSignal = "none"
    /\ anyFieldFilled = FALSE
    /\ coreOutcome = NoCore
    /\ coreFailedFor = {}
    /\ saveClickedFor = {}
    /\ continueFor = {}
    /\ submitClickedFor = {}
    /\ results = <<>>
    /\ resultsWritten = FALSE
    /\ err = FALSE
    /\ cleaned = <<>>

\* the matcher is not running
MatcherIdle ==
    /\ matcher = "none"
    /\ names = <<>>
    /\ avail = <<>>
    /\ hasSelected = FALSE
    /\ selectedItems = <<>>
    /\ ni = 1
    /\ variants = {}
    /\ trial_terms = <<>>
    /\ added = 0
    /\ misses = <<>>
    /\ outcome = <<>>
    /\ addedItem = <<>>
    /\ lastTrial = NoTrial
    /\ continueClicked = FALSE
    /\ confirmed = FALSE
    /\ mpc = "idle"

\* no target is being resolved
ResolveIdle ==
    /\ rfn = "none"
    /\ exists = <<>>
    /\ rk = 1
    /\ tried = <<>>
    /\ handle = 0
    /\ acted = {}
    /\ rres = "idle"

\* no loop is running
LoopIdle ==
    /\ lkind = "none"
    /\ times = 0
    /\ calls = <<>>
    /\ polls = 0
    /\ now = 0
    /\ deadline = 0
    /\ lout = "none"
    /\ lres = "idle"

\* no scenario is being selected
PickIdle ==
    /\ columns = {}
    /\ rows = <<>>
    /\ max_scenarios = 0
    /\ scenarios = <<>>
    /\ ppc = "idle"

\* no date-driven selection is running
DailyIdle ==
    /\ dmodules = <<>>
    /\ dday = 0
    /\ druns = <<>>

\* no pure function is being applied
CalcIdle ==
    /\ cfn = "none"
    /\ cin = <<>>
    /\ couts = <<>>

\* no snapshot is being written
FileIdle ==
    /\ wfs = <<>>
    /\ wpc = "idle"
    /\ wpayload = 0
    /\ wcalls = 0

\* every component but c is at rest
IdleExcept(c) ==
    /\ c # "matcher" => MatcherIdle
    /\ c # "flow" => FlowIdle
    /\ c # "resolve" => ResolveIdle
    /\ c # "loop" => LoopIdle
    /\ c # "pick" => PickIdle
    /\ c # "daily" => DailyIdle
    /\ c # "calc" => CalcIdle
    /\ c # "file" => FileIdle

(***************************************************************************)
(* Personnel matcher                                                       *)
(***************************************************************************)

\* state at the call of choose_users_and_continue(page, names) or
\* add_users_flow(page, names)
MatcherInit ==
    /\ matcher \in {"choose_users_and_continue", "add_users_flow"}
    /\ names \in SeqsUpTo(NamePool, MaxNames)
    /\ avail \in { q \in SeqsUpTo(ItemPool, Cardinality(ItemPool)) : Injective(q) }
    /\ hasSelected \in (IF matcher = "add_users_flow" THEN {FALSE} ELSE BOOLEAN)
    /\ selectedItems = <<>>
    /\ ni = 1
    /\ variants = {}
    /\ trial_terms = <<>>
    /\ added = 0
    /\ misses = <<>>
    /\ outcome = [i \in 1..Len(names) |-> "none"]
    /\ addedItem = [i \in 1..Len(names) |-> <<>>]
    /\ lastTrial = NoTrial
    /\ continueClicked = FALSE
    /\ confirmed = FALSE
    /\ mpc = "name"
    /\ IdleExcept("matcher")

\* candidates of a term: the listed items whose text matches the escaped,
\* case-insensitive pattern (lines 836-845)
Cand(term) ==
    LET idx == { i \in 1..Len(avail) : ContainsCI(avail[i], term) }
        RECURSIVE Pick(_)
        Pick(k) == IF k > Len(avail) THEN <<>>
                   ELSE (IF k \in idx THEN <<k>> ELSE <<>>) \o Pick(k + 1)
    IN Pick(1)

\* mutant of ChooseTarget: the old behaviour, always the first match
ChooseTarget_first(cand, first_upper, unread) == 1

\* the disambiguation of lines 847-863: position in cand of the target.
\* cand holds positions of avail; unread are the positions of cand whose
\* inner_text() raised.
ChooseTarget(cand, first_upper, unread) ==
    LET hits == { i \in 1..Len(cand) :
                    i \notin unread /\ Contains(Upper(Strip(avail[cand[i]])), first_upper) }
    IN IF Len(cand) > 1 /\ first_upper # <<>> /\ hits # {}
       THEN CHOOSE i \in hits : \A j \in hits : i <= j
       ELSE 1

\* for raw in names: raw.strip(); blank names are skipped, otherwise the
\* variant set is built (lines 779-810)
BeginName ==
    /\ matcher = "choose_users_and_continue"
    /\ mpc = "name"
    /\ ni <= Len(names)
    /\ LET raw == Strip(names[ni])
       IN IF raw = <<>>
          THEN /\ outcome' = [outcome EXCEPT ![ni] = "skipped"]
               /\ ni' = ni + 1
               /\ UNCHANGED <<variants, mpc>>
          ELSE /\ variants' = Variants(raw)
               /\ mpc' = "variants"
               /\ UNCHANGED <<outcome, ni>>
    /\ UNCHANGED <<matcher, names, avail, selectedItems, hasSelected, trial_terms,
                   added, misses, addedItem, lastTrial, continueClicked, confirmed>>
    /\ UNCHANGED nonMatcherVars

\* for variant in variants: a Python set is iterated in an arbitrary order
\* (lines 812-822)
NextVariant ==
    /\ matcher = "choose_users_and_continue"
    /\ mpc = "variants"
    /\ trial_terms = <<>>
    /\ variants # {}
    /\ \E v \in variants :
         /\ variants' = variants \ {v}
         /\ trial_terms' = IF Strip(v) = <<>> THEN <<>> ELSE TrialTerms(Strip(v))
    /\ UNCHANGED <<matcher, names, avail, selectedItems, hasSelected, ni, added, misses,
                   outcome, addedItem, lastTrial, continueClicked, confirmed, mpc>>
    /\ UNCHANGED nonMatcherVars

\* the surface's answer to an activation: it raises, does nothing, or moves
\* the item to the selected sub-surface
Responses == {"raise", "noop", "move"}

\* mutant of Activations: the double-click is performed whatever the click did
Activations_both(moved1, click, dbl) ==
    <<<<"click", click>>, <<"dblclick", dbl>>>>

\* the activations of the target, in order: target.click(), then
\* target.dblclick() under `if not moved` (lines 868-885)
Activations(moved1, click, dbl) ==
    IF moved1 THEN <<<<"click", click>>>>
    ELSE <<<<"click", click>>, <<"dblclick", dbl>>>>

\* one pass of `for term in trial_terms` (lines 824-895)
TryTerm ==
    /\ matcher = "choose_users_and_continue"
    /\ mpc = "variants"
    /\ trial_terms # <<>>
    /\ LET term == Strip(Head(trial_terms))
           raw == Strip(names[ni])
           first_upper == Upper(_first_name_from_raw(raw))
           cand == Cand(term)
       IN IF term = <<>> \/ cand = <<>>
          THEN /\ trial_terms' = Tail(trial_terms)
               /\ lastTrial' = [ni |-> ni, term |-> term, cand |-> <<>>, unread |-> {},
                                target |-> 0, acts |-> <<>>]
               /\ UNCHANGED <<avail, selectedItems, ni, variants, added, outcome,
                              addedItem, mpc>>
          ELSE \E unread \in SUBSET (1..Len(cand)), click \in Responses, dbl \in Responses :
                 /\ (Len(cand) <= 1 \/ first_upper = <<>>) => unread = {}
                 /\ LET t == ChooseTarget(cand, first_upper, unread)
                        item == avail[cand[t]]
                        sel1 == IF click = "move" THEN Append(selectedItems, item)
                                ELSE selectedItems
                        moved1 == IF hasSelected
                                  THEN \E k \in 1..Len(sel1) : ContainsCI(sel1[k], term)
                                  ELSE TRUE
                        sel2 == IF ~moved1 /\ dbl = "move" /\ click # "move"
                                THEN Append(sel1, item) ELSE sel1
                        moved == IF moved1 THEN TRUE
                                 ELSE \E k \in 1..Len(sel2) : ContainsCI(sel2[k], term)
                        acts == Activations(moved1, click, dbl)
                    IN /\ (moved1 => dbl = "noop")
                       /\ selectedItems' = sel2
                       /\ avail' = IF Len(sel2) > Len(selectedItems)
                                   THEN Remove(avail, cand[t]) ELSE avail
                       /\ lastTrial' = [ni |-> ni, term |-> term,
                                        cand |-> [k \in 1..Len(cand) |-> avail[cand[k]]],
                                        unread |-> unread, target |-> t, acts |-> acts]
                       /\ IF moved
                          THEN /\ added' = added + 1
                               /\ outcome' = [outcome EXCEPT ![ni] = "added"]
                               /\ addedItem' = [addedItem EXCEPT ![ni] = item]
                               /\ ni' = ni + 1
                               /\ variants' = {}
                               /\ trial_terms' = <<>>
                               /\ mpc' = "name"
                          ELSE /\ trial_terms' = Tail(trial_terms)
                               /\ UNCHANGED <<added, outcome, addedItem, ni, variants, mpc>>
    /\ UNCHANGED <<matcher, names, hasSelected, misses, continueClicked, confirmed>>
    /\ UNCHANGED nonMatcherVars

\* mutant of FinishName: a miss aborts the operation
FinishName_abort ==
    /\ matcher = "choose_users_and_continue"
    /\ mpc = "variants"
    /\ trial_terms = <<>>
    /\ variants = {}
    /\ mpc' = "raised"
    /\ UNCHANGED <<matcher, names, avail, selectedItems, hasSelected, ni, variants,
                   trial_terms, added, misses, outcome, addedItem, lastTrial,
                   continueClicked, confirmed>>
    /\ UNCHANGED nonMatcherVars

\* mutant of FinishName: the name that was not added is not recorded
FinishName_unrecorded ==
    /\ matcher = "choose_users_and_continue"
    /\ mpc = "variants"
    /\ trial_terms = <<>>
    /\ variants = {}
    /\ outcome' = [outcome EXCEPT ![ni] = "missing"]
    /\ ni' = ni + 1
    /\ mpc' = "name"
    /\ UNCHANGED <<matcher, names, avail, selectedItems, hasSelected, variants, trial_terms,
                   added, misses, addedItem, lastTrial, continueClicked, confirmed>>
    /\ UNCHANGED nonMatcherVars

\* if not success: misses.append(raw) (lines 900-902)
FinishName ==
    /\ matcher = "choose_users_and_continue"
    /\ mpc = "variants"
    /\ trial_terms = <<>>
    /\ variants = {}
    /\ misses' = Append(misses, Strip(names[ni]))
    /\ outcome' = [outcome EXCEPT ![ni] = "missing"]
    /\ ni' = ni + 1
    /\ mpc' = "name"
    /\ UNCHANGED <<matcher, names, avail, selectedItems, hasSelected, variants, trial_terms,
                   added, addedItem, lastTrial, continueClicked, confirmed>>
    /\ UNCHANGED nonMatcherVars

\* _click_continue_from_add_users: the click may raise; the wait that follows
\* is swallowed by wait_network_quiet (lines 908-909, 935-942, 1006-1008)
ClickContinue ==
    /\ matcher = "choose_users_and_continue"
    /\ mpc = "name"
    /\ ni > Len(names)
    /\ \E click \in {"ok", "raise"}, quiet \in BOOLEAN :
         IF click = "raise"
         THEN /\ ~quiet
              /\ mpc' = "raised"
              /\ UNCHANGED <<continueClicked, confirmed>>
         ELSE /\ continueClicked' = TRUE
              /\ confirmed' = quiet
              /\ mpc' = "returned"
    /\ UNCHANGED <<matcher, names, avail, selectedItems, hasSelected, ni, variants,
                   trial_terms, added, misses, outcome, addedItem, lastTrial>>
    /\ UNCHANGED nonMatcherVars

\* click_middle_list_item(full_name): an item whose whole text is the name,
\* case-insensitively, is clicked through click_hard; no such item, or every
\* click raising, gives False (src/training-bot.py lines 337-359)
ExactItems(full_name) == { i \in 1..Len(avail) : Upper(avail[i]) = Upper(full_name) }

\* one pass of `for name in names` of add_users_flow: everything is inside
\* one try/except that warns (src/training-bot.py lines 361-381)
AddUsersStep ==
    /\ matcher = "add_users_flow"
    /\ mpc = "name"
    /\ ni <= Len(names)
    /\ \E search \in {"ok", "raise"}, click \in Responses :
         LET name == names[ni]
             hit == ExactItems(name)
             found == search = "ok" /\ hit # {} /\ click # "raise"
             i == CHOOSE k \in hit : \A j \in hit : k <= j
         IN /\ (search = "raise" \/ hit = {}) => click = "raise"
            /\ lastTrial' = [ni |-> ni, term |-> name,
                             cand |-> IF search = "ok" /\ hit # {} THEN <<avail[i]>> ELSE <<>>,
                             unread |-> {},
                             target |-> IF search = "ok" /\ hit # {} THEN 1 ELSE 0,
                             acts |-> IF search = "ok" /\ hit # {}
                                      THEN <<<<"click", click>>>> ELSE <<>>]
            /\ IF found
               THEN /\ outcome' = [outcome EXCEPT ![ni] = "added"]
                    /\ addedItem' = [addedItem EXCEPT ![ni] = avail[i]]
                    /\ selectedItems' = IF click = "move" THEN Append(selectedItems, avail[i])
                                        ELSE selectedItems
                    /\ avail' = IF click = "move" THEN Remove(avail, i) ELSE avail
                    /\ UNCHANGED misses
               ELSE /\ outcome' = [outcome EXCEPT ![ni] = "missing"]
                    /\ misses' = Append(misses, name)
                    /\ UNCHANGED <<addedItem, selectedItems, avail>>
    /\ ni' = ni + 1
    /\ UNCHANGED <<matcher, names, hasSelected, variants, trial_terms, added,
                   continueClicked, confirmed, mpc>>
    /\ UNCHANGED nonMatcherVars

\* click "Continue", else "Next", then wait for the load to complete
\* (src/training-bot.py lines 383-388)
AddUsersContinue ==
    /\ matcher = "add_users_flow"
    /\ mpc = "name"
    /\ ni > Len(names)
    /\ \E cont \in {"ok", "raise"}, next \in {"ok", "raise"}, quiet \in BOOLEAN :
         /\ cont = "ok" => next = "ok"
         /\ IF cont = "raise" /\ next = "raise"
            THEN /\ ~quiet
                 /\ mpc' = "raised"
                 /\ UNCHANGED <<continueClicked, confirmed>>
            ELSE /\ continueClicked' = TRUE
                 /\ confirmed' = quiet
                 /\ mpc' = IF quiet THEN "returned" ELSE "raised"
    /\ UNCHANGED <<matcher, names, avail, selectedItems, hasSelected, ni, variants,
                   trial_terms, added, misses, outcome, addedItem, lastTrial>>
    /\ UNCHANGED nonMatcherVars

MatcherNext ==
    \/ BeginName \/ NextVariant \/ TryTerm \/ FinishName \/ ClickContinue
    \/ AddUsersStep \/ AddUsersContinue

SpecMatcher == MatcherInit /\ [][MatcherNext]_vars

(***************************************************************************)
(* Claims about the personnel matcher                                      *)
(***************************************************************************)

(***************************************************************************)
(* run_flow: login, open the form, one submission per scenario, cleanup    *)
(***************************************************************************)

MaxScen == 2

LoginPaths == {"url_matched", "PWTimeout", "no_fields", "swallowed", "goto_raised"}
Surfaces == {"dashboard", "login_page"}
FieldOutcomes == {"filled", "not_found", "raised"}

FlowInit ==
    /\ fpc = "start"
    /\ scen = 0
    /\ si = 1
    /\ loginSignal = "none"
    /\ anyFieldFilled = FALSE
    /\ coreOutcome = NoCore
    /\ coreFailedFor = {}
    /\ saveClickedFor = {}
    /\ continueFor = {}
    /\ submitClickedFor = {}
    /\ results = <<>>
    /\ resultsWritten = FALSE
    /\ err = FALSE
    /\ cleaned = <<>>
    /\ IdleExcept("flow")

\* an exception inside the try block of run_flow: the finally block runs next
Raise(stage) ==
    /\ err' = TRUE
    /\ fpc' = "finally"

\* scenarios are loaded and sliced and the roster is fetched, before the
\* browser exists; an exception here leaves run_flow at once
LoadAndFetch ==
    /\ fpc = "start"
    /\ \E ok \in BOOLEAN, n \in 0..MaxScen :
          IF ok
          THEN /\ scen' = n
               /\ fpc' = "login"
               /\ err' = err
          ELSE /\ scen' = scen
               /\ fpc' = "fatal"
               /\ err' = TRUE
    /\ UNCHANGED <<si, loginSignal, anyFieldFilled, coreOutcome, coreFailedFor,
                   saveClickedFor, continueFor, submitClickedFor, results,
                   resultsWritten, cleaned>>
    /\ UNCHANGED nonFlowVars

\* do_login: only the first page.goto can raise; whatever the candidate
\* selector sets did, the function returns and its caller reads nothing back
DoLogin ==
    /\ fpc = "login"
    /\ \E path \in LoginPaths, surface \in Surfaces :
          /\ path = "url_matched" => surface = "dashboard"
          /\ IF path = "goto_raised"
             THEN /\ Raise("login")
                  /\ loginSignal' = loginSignal
             ELSE /\ loginSignal' = surface
                  /\ fpc' = "open"
                  /\ err' = err
    /\ UNCHANGED <<scen, si, anyFieldFilled, coreOutcome, coreFailedFor,
                   saveClickedFor, continueFor, submitClickedFor, results,
                   resultsWritten, cleaned>>
    /\ UNCHANGED nonFlowVars

\* goto_dashboard_open_form then wait_for_training_form_ready: either raises
\* when the surface shows no entry control or no form
OpenForm ==
    /\ fpc = "open"
    /\ \E opened \in BOOLEAN :
          IF opened
          THEN /\ fpc' = IF scen >= si THEN "fill" ELSE "write"
               /\ err' = err
          ELSE Raise("open")
    /\ UNCHANGED <<scen, si, loginSignal, anyFieldFilled, coreOutcome, coreFailedFor,
                   saveClickedFor, continueFor, submitClickedFor, results,
                   resultsWritten, cleaned>>
    /\ UNCHANGED nonFlowVars

\* fill_training_form: every field is filled under swallow
FillTrainingForm ==
    /\ fpc = "fill"
    /\ \E filled \in SUBSET FormFields :
          anyFieldFilled' = (anyFieldFilled \/ filled # {})
    /\ fpc' = "core"
    /\ UNCHANGED <<scen, si, loginSignal, coreOutcome, coreFailedFor,
                   saveClickedFor, continueFor, submitClickedFor, results,
                   resultsWritten, err, cleaned>>
    /\ UNCHANGED nonFlowVars

\* fill_core_fields: each of the four core fields is filled under swallow,
\* so a field that is not found or whose fill raises is logged and skipped
FillCoreFields ==
    /\ fpc = "core"
    /\ \E o \in [CoreFields -> FieldOutcomes] :
          /\ coreOutcome' = o
          /\ anyFieldFilled' = (anyFieldFilled \/ \E f \in CoreFields : o[f] = "filled")
          /\ coreFailedFor' = IF \E f \in CoreFields : o[f] # "filled"
                               THEN coreFailedFor \cup {si}
                               ELSE coreFailedFor
    /\ fpc' = "save"
    /\ UNCHANGED <<scen, si, loginSignal, saveClickedFor, continueFor,
                   submitClickedFor, results, resultsWritten, err, cleaned>>
    /\ UNCHANGED nonFlowVars

\* click_save_and_add_users: clicks the control or raises RuntimeError
ClickSaveAndAddUsers ==
    /\ fpc = "save"
    /\ \E found \in BOOLEAN :
          IF found
          THEN /\ saveClickedFor' = saveClickedFor \cup {si}
               /\ fpc' = "choose"
               /\ err' = err
          ELSE /\ saveClickedFor' = saveClickedFor
               /\ Raise("save")
    /\ UNCHANGED <<scen, si, loginSignal, anyFieldFilled, coreOutcome, coreFailedFor,
                   continueFor, submitClickedFor, results, resultsWritten, cleaned>>
    /\ UNCHANGED nonFlowVars

\* mutant of ChooseUsers: a failed click on the continuation control is
\* swallowed
ChooseUsers_swallowed ==
    /\ fpc = "choose"
    /\ \E returned \in BOOLEAN :
          continueFor' = IF returned THEN continueFor \cup {si} ELSE continueFor
    /\ fpc' = "submit"
    /\ UNCHANGED <<scen, si, loginSignal, anyFieldFilled, coreOutcome, coreFailedFor,
                   saveClickedFor, submitClickedFor, results, resultsWritten, err, cleaned>>
    /\ UNCHANGED nonFlowVars

\* choose_users_and_continue as run_flow sees it: it returns after the
\* continuation control was clicked, or that click raises
ChooseUsers ==
    /\ fpc = "choose"
    /\ \E returned \in BOOLEAN :
          IF returned
          THEN /\ continueFor' = continueFor \cup {si}
               /\ fpc' = "submit"
               /\ err' = err
          ELSE /\ continueFor' = continueFor
               /\ Raise("choose")
    /\ UNCHANGED <<scen, si, loginSignal, anyFieldFilled, coreOutcome, coreFailedFor,
                   saveClickedFor, submitClickedFor, results, resultsWritten, cleaned>>
    /\ UNCHANGED nonFlowVars

\* submit_training and results.append, then the next scenario
SubmitTraining ==
    /\ fpc = "submit"
    /\ \E r \in {"clicked", "not_found", "click_raised"} :
          CASE r = "clicked" ->
                  /\ submitClickedFor' = submitClickedFor \cup {si}
                  /\ results' = Append(results, si)
                  /\ si' = si + 1
                  /\ fpc' = IF scen >= si + 1 THEN "fill" ELSE "write"
                  /\ err' = err
            [] r = "click_raised" ->
                  /\ submitClickedFor' = submitClickedFor \cup {si}
                  /\ UNCHANGED <<results, si>>
                  /\ Raise("submit")
            [] OTHER ->
                  /\ UNCHANGED <<submitClickedFor, results, si>>
                  /\ Raise("submit")
    /\ UNCHANGED <<scen, loginSignal, anyFieldFilled, coreOutcome, coreFailedFor,
                   saveClickedFor, continueFor, resultsWritten, cleaned>>
    /\ UNCHANGED nonFlowVars

\* write_json(out_path, results), once, after the last scenario
WriteResults ==
    /\ fpc = "write"
    /\ \E ok \in BOOLEAN :
          /\ resultsWritten' = ok
          /\ err' = ~ok
    /\ fpc' = "finally"
    /\ UNCHANGED <<scen, si, loginSignal, anyFieldFilled, coreOutcome, coreFailedFor,
                   saveClickedFor, continueFor, submitClickedFor, results, cleaned>>
    /\ UNCHANGED nonFlowVars

\* the cleanup steps of the finally block, in order
CleanupSteps == <<"tracing", "context", "browser", "pw">>

\* mutant of CleanupRun: the steps are not guarded, the first one that
\* raises ends the block
CleanupRun_unguarded(o) ==
    LET bad == { i \in 1..Len(CleanupSteps) : o[i] = "raise" }
        last == IF bad = {} THEN Len(CleanupSteps)
                ELSE CHOOSE i \in bad : \A j \in bad : i <= j
    IN [i \in 1..last |-> [step |-> CleanupSteps[i], raised |-> o[i] = "raise"]]

\* the steps attempted by the finally block when step i does o[i]: each
\* step runs under swallow, so an exception of one step is logged and the
\* next step runs
CleanupRun(o) ==
    [i \in 1..Len(CleanupSteps) |-> [step |-> CleanupSteps[i], raised |-> o[i] = "raise"]]

\* the finally block: four cleanup steps, each under swallow; a pending
\* exception then reaches __main__, which logs it and exits with status 1
Cleanup ==
    /\ fpc = "finally"
    /\ \E o \in [1..Len(CleanupSteps) -> {"ok", "raise"}] : cleaned' = CleanupRun(o)
    /\ fpc' = IF err THEN "fatal" ELSE "done"
    /\ UNCHANGED <<scen, si, loginSignal, anyFieldFilled, coreOutcome, coreFailedFor,
                   saveClickedFor, continueFor, submitClickedFor, results,
                   resultsWritten, err>>
    /\ UNCHANGED nonFlowVars

FlowNext ==
    \/ LoadAndFetch
    \/ DoLogin
    \/ OpenForm
    \/ FillTrainingForm
    \/ FillCoreFields
    \/ ClickSaveAndAddUsers
    \/ ChooseUsers
    \/ SubmitTraining
    \/ WriteResults
    \/ Cleanup

SpecFlow == FlowInit /\ [][FlowNext]_vars

(***************************************************************************)
(* Target resolution: ordered chains of locate strategies                  *)
(***************************************************************************)

MaxFrames == 2

ResolveFns == {"find_by_label_like", "fill_location_field", "submit_training",
               "submit_form"}

\* the selectors fill_location_field tries on each target
NumLocationSelectors == 4

\* the number of strategies of each chain; fill_location_field tries its
\* selectors on the page and then on each of the nframes frames of page.frames
ChainLen(fn, nframes) ==
    CASE fn = "find_by_label_like" -> 5
      [] fn = "fill_location_field" -> NumLocationSelectors * (1 + nframes)
      [] fn = "submit_training" -> 3
      [] OTHER -> 3

BoolSeqs(n) == [1..n -> BOOLEAN]

\* page.frames[0] is the main frame: the selectors find on it what they
\* find on the page
SameMainFrame(fn, e) ==
    fn = "fill_location_field" =>
        \A k \in 1..NumLocationSelectors : e[NumLocationSelectors + k] = e[k]

\* label_text compiles as a regular expression (rres "running") or not
\* ("running_badre"); only find_by_label_like compiles its argument
ResolveInit ==
    /\ rfn \in ResolveFns
    /\ \E nframes \in 1..MaxFrames :
          /\ exists \in BoolSeqs(ChainLen(rfn, nframes))
          /\ SameMainFrame(rfn, exists)
    /\ rk = 1
    /\ tried = <<>>
    /\ handle = 0
    /\ acted = {}
    /\ rres \in IF rfn = "find_by_label_like" THEN {"running", "running_badre"}
                 ELSE {"running"}
    /\ IdleExcept("resolve")

Running == rres \in {"running", "running_badre"}

\* building the k-th locator of find_by_label_like raises: the first three
\* call re.compile(label_text); a locator is lazy, so nothing else can raise
\* and the existence of an element plays no part
StrategyRaises(k) == rres = "running_badre" /\ k <= 3

find_by_label_like ==
    /\ rfn = "find_by_label_like"
    /\ Running
    /\ IF rk > Len(exists)
       THEN /\ rres' = "raised"
            /\ UNCHANGED <<rk, tried, handle>>
       ELSE /\ tried' = Append(tried, rk)
            /\ IF StrategyRaises(rk)
               THEN /\ rk' = rk + 1
                    /\ UNCHANGED <<handle, rres>>
               ELSE /\ handle' = rk
                    /\ rres' = "returned"
                    /\ rk' = rk
    /\ UNCHANGED <<rfn, exists, acted>>
    /\ UNCHANGED nonResolveVars

\* the first strategy of the target after the one strategy k belongs to
NextTarget(k) ==
    (((k - 1) \div NumLocationSelectors) + 1) * NumLocationSelectors + 1

fill_location_field ==
    /\ rfn = "fill_location_field"
    /\ Running
    /\ IF rk > Len(exists)
       THEN \* not found in any frame: log, dump the DOM, return
            /\ rres' = "returned"
            /\ UNCHANGED <<rk, tried, handle, acted>>
       ELSE /\ tried' = Append(tried, rk)
            /\ IF exists[rk]
               THEN /\ acted' = acted \cup {rk}
                    /\ \E filled \in BOOLEAN :
                          IF filled
                          THEN /\ handle' = rk
                               /\ rres' = "returned"
                               /\ rk' = rk
                          ELSE IF rk <= NumLocationSelectors
                          THEN \* on the page the exception of fill propagates
                               /\ rres' = "raised"
                               /\ UNCHANGED <<handle, rk>>
                          ELSE \* in a frame it is caught: the next frame is tried
                               /\ rk' = NextTarget(rk)
                               /\ UNCHANGED <<handle, rres>>
               ELSE /\ rk' = rk + 1
                    /\ UNCHANGED <<handle, acted, rres>>
    /\ UNCHANGED <<rfn, exists>>
    /\ UNCHANGED nonResolveVars

submit_training ==
    /\ rfn = "submit_training"
    /\ Running
    /\ IF rk > Len(exists)
       THEN /\ rres' = "raised"
            /\ UNCHANGED <<rk, tried, handle, acted>>
       ELSE /\ tried' = Append(tried, rk)
            /\ IF exists[rk]
               THEN /\ acted' = acted \cup {rk}
                    /\ \E clicked \in BOOLEAN :
                          IF clicked
                          THEN /\ handle' = rk
                               /\ rres' = "returned"
                          ELSE /\ handle' = handle
                               /\ rres' = "raised"
                    /\ rk' = rk
               ELSE /\ rk' = rk + 1
                    /\ UNCHANGED <<handle, acted, rres>>
    /\ UNCHANGED <<rfn, exists>>
    /\ UNCHANGED nonResolveVars

\* submit_form: click_button_like(label) then wait_for_load_state, both in
\* one try; any exception moves on to the next label
submit_form ==
    /\ rfn = "submit_form"
    /\ Running
    /\ IF rk > Len(exists)
       THEN \* warn("couldn't find a Submit/Save/Finish button"), return
            /\ rres' = "returned"
            /\ UNCHANGED <<rk, tried, handle, acted>>
       ELSE /\ tried' = Append(tried, rk)
            /\ IF exists[rk]
               THEN \E clicked, loaded \in BOOLEAN :
                      /\ acted' = IF clicked THEN acted \cup {rk} ELSE acted
                      /\ IF clicked /\ loaded
                         THEN /\ handle' = rk
                              /\ rres' = "returned"
                              /\ rk' = rk
                         ELSE /\ rk' = rk + 1
                              /\ UNCHANGED <<handle, rres>>
               ELSE /\ rk' = rk + 1
                    /\ UNCHANGED <<handle, acted, rres>>
    /\ UNCHANGED <<rfn, exists>>
    /\ UNCHANGED nonResolveVars

ResolveNext ==
    \/ find_by_label_like
    \/ fill_location_field
    \/ submit_training
    \/ submit_form

SpecResolve == ResolveInit /\ [][ResolveNext]_vars

(***************************************************************************)
(* Bounded retry and polling loops                                         *)
(***************************************************************************)

MaxTimes == 3
MaxTimeout == 3
MaxStep == 2

\* range(3) in goto_robust
GotoAttempts == 3

LoopKinds == {"retry", "goto_robust", "goto_dashboard_open_form",
              "wait_for_training_form", "wait_for_file"}
DeadlineLoops == {"goto_dashboard_open_form", "wait_for_training_form", "wait_for_file"}

\* what a call of fn gives: a result, or an exception
Values == {"v1", "v2"}
Exceptions == {"PWTimeout", "Error"}

\* the program calls retry with times = 2 and times = 3; a deadline loop
\* computes its deadline from the clock on entry
LoopInit ==
    /\ lkind \in LoopKinds
    /\ times \in IF lkind = "retry" THEN 1..MaxTimes
                 ELSE IF lkind = "goto_robust" THEN {GotoAttempts} ELSE {0}
    /\ calls = <<>>
    /\ polls = 0
    /\ now = 0
    /\ deadline \in IF lkind \in DeadlineLoops THEN 0..MaxTimeout ELSE {0}
    /\ lout = "none"
    /\ lres = "running"
    /\ IdleExcept("loop")

\* the clock after time.sleep: a sleep takes at least one tick
Sleep_skipped(t, d) == t
Sleep(t, d) == t + d

\* last_exc after the attempts cs: the exception of the latest one
LastExc_first(cs) == cs[1]
LastExc(cs) == cs[Len(cs)]

\* retry(times, sleep_sec, fn): one pass of `for i in range(times)`, or the
\* `raise last_exc` after the loop
retry ==
    /\ lkind = "retry"
    /\ lres = "running"
    /\ IF Len(calls) < times
       THEN \E r \in Values \cup Exceptions, d \in 1..MaxStep :
              /\ calls' = Append(calls, r)
              /\ IF r \in Values
                 THEN /\ lout' = r
                      /\ lres' = "returned"
                      /\ now' = now
                 ELSE /\ now' = Sleep(now, d)
                      /\ UNCHANGED <<lout, lres>>
       ELSE /\ lout' = LastExc(calls)
            /\ lres' = "raised"
            /\ UNCHANGED <<calls, now>>
    /\ UNCHANGED <<lkind, times, polls, deadline>>
    /\ UNCHANGED nonLoopVars

\* goto_robust: three attempts, then one reload whose exception propagates
goto_robust ==
    /\ lkind = "goto_robust"
    /\ lres = "running"
    /\ IF Len(calls) < times
       THEN \E r \in {"arrived"} \cup Exceptions :
              /\ calls' = Append(calls, r)
              /\ IF r = "arrived"
                 THEN /\ lout' = "None"
                      /\ lres' = "returned"
                      /\ now' = now
                 ELSE /\ now' = Sleep(now, 1)
                      /\ UNCHANGED <<lout, lres>>
       ELSE \E r \in {"reloaded"} \cup Exceptions :
              /\ IF r = "reloaded"
                 THEN /\ lout' = "None"
                      /\ lres' = "returned"
                 ELSE /\ lout' = r
                      /\ lres' = "raised"
              /\ UNCHANGED <<calls, now>>
    /\ UNCHANGED <<lkind, times, polls, deadline>>
    /\ UNCHANGED nonLoopVars

\* goto_dashboard_open_form: one pass of `while time.time() < deadline`, or
\* the RuntimeError after the loop
goto_dashboard_open_form ==
    /\ lkind = "goto_dashboard_open_form"
    /\ lres = "running"
    /\ IF now < deadline
       THEN \E clicked \in BOOLEAN, d \in 1..MaxStep :
              /\ polls' = 1 - polls
              /\ IF clicked
                 THEN /\ lout' = "None"
                      /\ lres' = "returned"
                      /\ now' = now
                 ELSE /\ now' = Sleep(now, d)
                      /\ UNCHANGED <<lout, lres>>
       ELSE /\ lout' = "RuntimeError"
            /\ lres' = "raised"
            /\ UNCHANGED <<polls, now>>
    /\ UNCHANGED <<lkind, times, calls, deadline>>
    /\ UNCHANGED nonLoopVars

\* wait_for_training_form: the same shape, probing FORM_PROBES
wait_for_training_form ==
    /\ lkind = "wait_for_training_form"
    /\ lres = "running"
    /\ IF now < deadline
       THEN \E probed \in BOOLEAN, d \in 1..MaxStep :
              /\ polls' = 1 - polls
              /\ IF probed
                 THEN /\ lout' = "None"
                      /\ lres' = "returned"
                      /\ now' = now
                 ELSE /\ now' = Sleep(now, d)
                      /\ UNCHANGED <<lout, lres>>
       ELSE /\ lout' = "RuntimeError"
            /\ lres' = "raised"
            /\ UNCHANGED <<polls, now>>
    /\ UNCHANGED <<lkind, times, calls, deadline>>
    /\ UNCHANGED nonLoopVars

\* wait_for_file: sleeps, then looks for a new file (a stat of a file that
\* vanished raises); returns None when the time is up
wait_for_file ==
    /\ lkind = "wait_for_file"
    /\ lres = "running"
    /\ IF now < deadline
       THEN \E r \in {"file", "nothing"} \cup Exceptions, d \in 1..MaxStep :
              /\ polls' = 1 - polls
              /\ now' = Sleep(now, d)
              /\ CASE r = "file" -> lout' = "file" /\ lres' = "returned"
                   [] r = "nothing" -> UNCHANGED <<lout, lres>>
                   [] OTHER -> lout' = r /\ lres' = "raised"
       ELSE /\ lout' = "None"
            /\ lres' = "returned"
            /\ UNCHANGED <<polls, now>>
    /\ UNCHANGED <<lkind, times, calls, deadline>>
    /\ UNCHANGED nonLoopVars

LoopNext ==
    \/ retry
    \/ goto_robust
    \/ goto_dashboard_open_form
    \/ wait_for_training_form
    \/ wait_for_file

SpecLoops == LoopInit /\ [][LoopNext]_vars

\* the interpreter keeps running the loop: a step that can be taken is taken
SpecLoopsLive == LoopInit /\ [][LoopNext]_vars /\ WF_vars(LoopNext)

(***************************************************************************)
(* Scenario selection: load_scenarios_from_csv and the slice of run_flow   *)
(***************************************************************************)

MaxRows == 3
MaxPick == 2

CSV_HEADERS == {"Location", "Checkbox Label", "Description", "Duration", "Instructor"}
KnownColumns == CSV_HEADERS \cup {"Date", "Time"}
RowPool == {"rowA", "rowB"}

\* a CSV file: its header line (at most one known column absent) and its rows
PickInit ==
    /\ columns \in { c \in SUBSET KnownColumns : Cardinality(KnownColumns \ c) <= 1 }
    /\ rows \in SeqsUpTo(RowPool, MaxRows)
    /\ max_scenarios \in 0..MaxPick
    /\ scenarios = <<>>
    /\ ppc = "load"
    /\ IdleExcept("pick")

\* the orders random.shuffle can leave a list in
Shuffles(q) ==
    { [i \in 1..Len(q) |-> q[p[i]]] :
        p \in { f \in [1..Len(q) -> 1..Len(q)] : \A i, j \in 1..Len(q) : f[i] = f[j] => i = j } }

\* scenarios[:n]
Slice_short(q, n) == SubSeq(q, 1, IF n - 1 < Len(q) THEN n - 1 ELSE Len(q))
Slice(q, n) == SubSeq(q, 1, IF n < Len(q) THEN n ELSE Len(q))

load_scenarios_from_csv ==
    /\ ppc = "load"
    /\ IF CSV_HEADERS \ columns # {}
       THEN /\ ppc' = "raised"
            /\ scenarios' = scenarios
       ELSE /\ scenarios' \in Shuffles(rows)
            /\ ppc' = "slice"
    /\ UNCHANGED <<columns, rows, max_scenarios>>
    /\ UNCHANGED nonPickVars

\* `if max_scenarios and max_scenarios > 0: scenarios = scenarios[:max_scenarios]`
SliceScenarios ==
    /\ ppc = "slice"
    /\ scenarios' = IF max_scenarios > 0 THEN Slice(scenarios, max_scenarios)
                     ELSE scenarios
    /\ ppc' = "picked"
    /\ UNCHANGED <<columns, rows, max_scenarios>>
    /\ UNCHANGED nonPickVars

PickNext ==
    \/ load_scenarios_from_csv
    \/ SliceScenarios

SpecPick == PickInit /\ [][PickNext]_vars

(***************************************************************************)
(* Date-driven selection: build_daily_training_v2 main, next to the        *)
(* shuffle of load_scenarios_from_csv; two runs on one day, one list       *)
(***************************************************************************)

MaxModules == 3
MaxDay == 2
MaxPerDay == 2

Runs == {1, 2}
Programs == {"build_daily_training", "load_scenarios_from_csv"}
\* cfg.get("fixed_seed"): absent, or an integer
FixedSeeds == {"None", "7", "8"}
\* the time of day a run starts at
Clocks == {0, 1}

ModuleList == <<"m1", "m2", "m3", "m4">>

DailyInit ==
    /\ dmodules \in { SubSeq(ModuleList, 1, n) : n \in 0..MaxModules }
    /\ dday \in 1..MaxDay
    /\ druns \in [Runs -> [prog : Programs, fixed_seed : FixedSeeds, k : 1..MaxPerDay,
                            clock : Clocks, chosen : {<<>>}, res : {"start"}]]
    /\ IdleExcept("daily")

\* dt.date.today() as run r reads it
Today_clock(r) == dday * 2 + druns[r].clock
Today(r) == dday

\* int(hashlib.sha256(today.encode()).hexdigest(), 16): a fixed function of
\* the text of the date (the digest itself is not computed here)
Digest(today) == (today * 7919 + 104729) % 1000003

\* date_seed(fixed) on the day `today`
date_seed(fixed, today) ==
    IF fixed # "None"
    THEN (IF fixed = "7" THEN 7 ELSE 8)
    ELSE Digest(today) % 2147483647

\* random.Random(seed).sample(q, k): k distinct items of q, a fixed function
\* of the seed, the list and k (the generator itself is not computed here)
Sample(seed, q, k) ==
    [i \in 1..k |-> q[((seed + i - 1) % Len(q)) + 1]]

\* one run of build_daily_training_v2 main up to `chosen`
build_daily_training(r) ==
    /\ druns[r].res = "start"
    /\ druns[r].prog = "build_daily_training"
    /\ LET seed == date_seed(druns[r].fixed_seed, Today(r))
           k == druns[r].k
       IN druns' = [druns EXCEPT ![r] =
              IF dmodules = <<>>
              THEN [@ EXCEPT !.res = "no_modules"]
              ELSE [@ EXCEPT !.res = "picked",
                             !.chosen = IF k >= Len(dmodules) THEN dmodules
                                        ELSE Sample(seed, dmodules, k)]]
    /\ UNCHANGED <<dmodules, dday>>
    /\ UNCHANGED nonDailyVars

\* one run of load_scenarios_from_csv and the slice of run_flow on the same
\* list: random.shuffle draws from the unseeded module generator
shuffle_and_slice(r) ==
    /\ druns[r].res = "start"
    /\ druns[r].prog = "load_scenarios_from_csv"
    /\ \E q \in Shuffles(dmodules) :
          druns' = [druns EXCEPT ![r] =
              [@ EXCEPT !.res = "picked", !.chosen = Slice(q, druns[r].k)]]
    /\ UNCHANGED <<dmodules, dday>>
    /\ UNCHANGED nonDailyVars

DailyNext ==
    \E r \in Runs :
        \/ build_daily_training(r)
        \/ shuffle_and_slice(r)

SpecDaily == DailyInit /\ [][DailyNext]_vars

(***************************************************************************)
(* Payload unwrapping: _unwrap_units and its caller fetch_minicad          *)
(***************************************************************************)

MaxEntries == 2

WRAPPER_KEYS == <<"d", "results", "value", "Units", "units", "Data", "data">>

\* JSON values: every value is a record with a type tag t
Num == [t |-> "num"]
NotJson == [t |-> "invalid"]
List(items) == [t |-> "list", items |-> items]
Dict(keys, vals) == [t |-> "dict", keys |-> keys, vals |-> vals]
\* a string, with what json.loads makes of it (NotJson when it raises)
Str(parsed) == [t |-> "str", parsed |-> parsed]

\* two unit records, and a plain string
Unit1 == Dict(<<"UnitName">>, <<Str(NotJson)>>)
Unit2 == Dict(<<"Unit">>, <<Str(NotJson)>>)
Text == Str(NotJson)

ListPool == {List(<<>>), List(<<Unit1>>), List(<<Unit2>>), List(<<Num>>)}
InnerDicts == {Dict(<<"inner">>, <<List(<<Unit1>>)>>),
               Dict(<<"x", "inner">>, <<Text, List(<<Unit2>>)>>),
               Dict(<<"x">>, <<Text>>)}
KeyPool == {"d", "data", "results", "a", "b"}
ValuePool == ListPool \cup InnerDicts \cup {Text, Num}

\* mappings of at most n entries, in insertion order, keys distinct
DictsUpTo(n) ==
    { Dict(ks, vs) : <<ks, vs>> \in
        UNION { { ks \in [1..m -> KeyPool] : \A i, j \in 1..m : ks[i] = ks[j] => i = j }
                \X [1..m -> ValuePool] : m \in 0..n } }

PlainPayloads == ListPool \cup DictsUpTo(MaxEntries) \cup {Num}
\* strings: not JSON, JSON of a plain payload, JSON of such a string
OnceEncoded == { Str(q) : q \in ListPool \cup {Num, NotJson, Dict(<<"data">>, <<List(<<Unit1>>)>>),
                                              Dict(<<"a">>, <<Text>>)} }
TwiceEncoded == { Str(q) : q \in OnceEncoded }
Payloads == PlainPayloads \cup OnceEncoded \cup TwiceEncoded

\* payload.get(k): the value under key k, Num standing for None when absent
HasKey(p, k) == \E i \in 1..Len(p.keys) : p.keys[i] = k
Get(p, k) == IF HasKey(p, k)
             THEN p.vals[CHOOSE i \in 1..Len(p.keys) : p.keys[i] = k]
             ELSE Num

\* the least index of a non-empty set of indexes
FirstIndex(S) == CHOOSE i \in S : \A j \in S : i <= j

Found(v, n) == [ok |-> TRUE, val |-> v, parses |-> n]
ShapeFail(n) == [ok |-> FALSE, val |-> NotJson, parses |-> n]

\* case 2: the list under the first wrapper key that holds a list
WrapperHits(p) ==
    { i \in 1..Len(WRAPPER_KEYS) :
        HasKey(p, WRAPPER_KEYS[i]) /\ Get(p, WRAPPER_KEYS[i]).t = "list" }

\* case 3: the values of the mapping that are lists
ListValues(p) == { i \in 1..Len(p.vals) : p.vals[i].t = "list" }

\* case 4: the wrapper keys that hold a mapping with a list inside
NestedHits(p) ==
    { i \in 1..Len(WRAPPER_KEYS) :
        /\ Get(p, WRAPPER_KEYS[i]).t = "dict"
        /\ ListValues(Get(p, WRAPPER_KEYS[i])) # {} }

\* cases 2 to 4 on a mapping, in the order of the code (case 3 and case 4
\* exchanged in the variant)
UnwrapDict_nested_first(p, n) ==
    IF WrapperHits(p) # {}
    THEN Found(Get(p, WRAPPER_KEYS[FirstIndex(WrapperHits(p))]), n)
    ELSE IF NestedHits(p) # {}
    THEN LET inner == Get(p, WRAPPER_KEYS[FirstIndex(NestedHits(p))])
         IN Found(inner.vals[FirstIndex(ListValues(inner))], n)
    ELSE IF Cardinality(ListValues(p)) = 1
    THEN Found(p.vals[FirstIndex(ListValues(p))], n)
    ELSE ShapeFail(n)
UnwrapDict(p, n) ==
    IF WrapperHits(p) # {}
    THEN Found(Get(p, WRAPPER_KEYS[FirstIndex(WrapperHits(p))]), n)
    ELSE IF Cardinality(ListValues(p)) = 1
    THEN Found(p.vals[FirstIndex(ListValues(p))], n)
    ELSE IF NestedHits(p) # {}
    THEN LET inner == Get(p, WRAPPER_KEYS[FirstIndex(NestedHits(p))])
         IN Found(inner.vals[FirstIndex(ListValues(inner))], n)
    ELSE ShapeFail(n)

\* the variant that parses a string once and does not call itself
UnwrapFrom_once(p, n) ==
    CASE p.t = "list" -> Found(p, n)
      [] p.t = "dict" -> UnwrapDict(p, n)
      [] p.t = "str" ->
            CASE p.parsed.t = "list" -> Found(p.parsed, n + 1)
              [] p.parsed.t = "dict" -> UnwrapDict(p.parsed, n + 1)
              [] OTHER -> ShapeFail(n + 1)
      [] OTHER -> ShapeFail(n)

\* _unwrap_units(payload) after n calls of json.loads: the list found, or
\* the RuntimeError; a string is parsed and the function calls itself
RECURSIVE UnwrapFrom(_, _)
UnwrapFrom(p, n) ==
    CASE p.t = "list" -> Found(p, n)
      [] p.t = "dict" -> UnwrapDict(p, n)
      [] p.t = "str" ->
            IF p.parsed.t = "invalid"
            THEN ShapeFail(n + 1)
            ELSE UnwrapFrom(p.parsed, n + 1)
      [] OTHER -> ShapeFail(n)

_unwrap_units(payload) == UnwrapFrom(payload, 0)

CalcFns == {"_unwrap_units", "fetch_minicad"}

UnwrapInit ==
    /\ cfn \in CalcFns
    /\ cin \in Payloads
    /\ couts = <<>>
    /\ IdleExcept("calc")

\* a call of _unwrap_units on the payload
ApplyUnwrap ==
    /\ cfn = "_unwrap_units"
    /\ couts = <<>>
    /\ couts' = <<_unwrap_units(cin)>>
    /\ UNCHANGED <<cfn, cin>>
    /\ UNCHANGED nonCalcVars

\* fetch_minicad from the decoded response on: unwrap (on failure save the
\* raw JSON and raise), then refuse a list that holds a non-mapping
fetch_minicad ==
    /\ cfn = "fetch_minicad"
    /\ couts = <<>>
    /\ LET u == _unwrap_units(cin)
       IN couts' =
            IF ~u.ok
            THEN <<[res |-> "raised", val |-> NotJson, dumped |-> TRUE]>>
            ELSE IF \E i \in 1..Len(u.val.items) : u.val.items[i].t # "dict"
            THEN <<[res |-> "raised", val |-> NotJson, dumped |-> FALSE]>>
            ELSE <<[res |-> "returned", val |-> u.val, dumped |-> FALSE]>>
    /\ UNCHANGED <<cfn, cin>>
    /\ UNCHANGED nonCalcVars

UnwrapNext ==
    \/ ApplyUnwrap
    \/ fetch_minicad

SpecUnwrap == UnwrapInit /\ [][UnwrapNext]_vars

(***************************************************************************)
(* Name canonicalization: strip_rank, normalize_staff_list,                *)
(* ensure_last_first                                                       *)
(***************************************************************************)

LowerLetters == <<"a", "b", "c", "d", "e", "f", "g", "h", "i", "j", "k", "l", "m", "n", "o", "p", "q", "r", "s", "t", "u", "v", "w", "x", "y", "z">>
UpperLetters == <<"A", "B", "C", "D", "E", "F", "G", "H", "I", "J", "K", "L", "M", "N", "O", "P", "Q", "R", "S", "T", "U", "V", "W", "X", "Y", "Z">>

\* str.lower() on one character, as re.IGNORECASE compares letters
LowChar(c) ==
    IF \E i \in 1..26 : UpperLetters[i] = c
    THEN LowerLetters[CHOOSE i \in 1..26 : UpperLetters[i] = c]
    ELSE c
Lower(s) == [i \in 1..Len(s) |-> LowChar(s[i])]

\* RANK_PREFIXES: each title, and whether the pattern allows a dot after it
RANK_PREFIXES ==
    <<[word |-> <<"A", "c", "t", "i", "n", "g">>, dot |-> FALSE],
      [word |-> <<"I", "n", "t", "e", "r", "i", "m">>, dot |-> FALSE],
      [word |-> <<"C", "h", "i", "e", "f">>, dot |-> FALSE],
      [word |-> <<"B", "a", "t", "t", "a", "l", "i", "o", "n", " ", "C", "h", "i", "e", "f">>, dot |-> FALSE],
      [word |-> <<"B", "C">>, dot |-> FALSE],
      [word |-> <<"D", "i", "v", "i", "s", "i", "o", "n", " ", "C", "h", "i", "e", "f">>, dot |-> FALSE],
      [word |-> <<"C", "a", "p", "t", "a", "i", "n">>, dot |-> TRUE],
      [word |-> <<"C", "a", "p", "t">>, dot |-> TRUE],
      [word |-> <<"L", "i", "e", "u", "t", "e", "n", "a", "n", "t">>, dot |-> TRUE],
      [word |-> <<"L", "t">>, dot |-> TRUE],
      [word |-> <<"S", "e", "r", "g", "e", "a", "n", "t">>, dot |-> TRUE],
      [word |-> <<"S", "g", "t">>, dot |-> TRUE],
      [word |-> <<"E", "n", "g", "i", "n", "e", "e", "r">>, dot |-> TRUE],
      [word |-> <<"E", "n", "g">>, dot |-> TRUE],
      [word |-> <<"F", "i", "r", "e", "f", "i", "g", "h", "t", "e", "r">>, dot |-> TRUE],
      [word |-> <<"F", "F">>, dot |-> TRUE],
      [word |-> <<"P", "a", "r", "a", "m", "e", "d", "i", "c">>, dot |-> TRUE],
      [word |-> <<"M", "e", "d", "i", "c">>, dot |-> TRUE],
      [word |-> <<"O", "f", "f", "i", "c", "e", "r">>, dot |-> FALSE]>>

\* the number of leading blanks of s
LeadingBlanks(s) == Len(s) - Len(LStrip(s))

\* the length of the match of RANK_SPLIT at the start of s (0: no match):
\* leading blanks, one title, the dot where allowed, one or more blanks
RankMatchLen(s) ==
    LET t == LStrip(s)
        lead == LeadingBlanks(s)
        hit(r) ==
            LET w == r.word
                afterWord == SubSeq(t, Len(w) + 1, Len(t))
                afterDot == IF r.dot /\ afterWord # <<>> /\ Head(afterWord) = "."
                            THEN Tail(afterWord) ELSE afterWord
            IN IF Len(t) >= Len(w) /\ Lower(SubSeq(t, 1, Len(w))) = Lower(w)
                  /\ LeadingBlanks(afterDot) >= 1
               THEN lead + (Len(t) - Len(LStrip(afterDot)))
               ELSE 0
        hits == { i \in 1..Len(RANK_PREFIXES) : hit(RANK_PREFIXES[i]) > 0 }
    IN IF hits = {} THEN 0
       ELSE hit(RANK_PREFIXES[CHOOSE i \in hits : \A j \in hits : i <= j])

\* RANK_SPLIT.sub("", name): the pattern is anchored, one match is removed
RankSub(s) == SubSeq(s, RankMatchLen(s) + 1, Len(s))

\* re.sub(r"\s{2,}", " ", s)
RECURSIVE CollapseBlanks(_)
CollapseBlanks(s) ==
    IF Len(s) < 2 THEN s
    ELSE IF s[1] = " " /\ s[2] = " " THEN CollapseBlanks(Tail(s))
    ELSE <<s[1]>> \o CollapseBlanks(Tail(s))

\* the length of the match of ,\s*,+ at the start of s (0: no match)
CommaRunLen(s) ==
    IF s = <<>> \/ s[1] # "," THEN 0
    ELSE LET rest == Tail(s)
             blanks == LeadingBlanks(rest)
             after == LStrip(rest)
             commas == IF \E i \in 1..Len(after) : after[i] # ","
                       THEN (CHOOSE i \in 1..Len(after) :
                                after[i] # "," /\ \A j \in 1..(i - 1) : after[j] = ",") - 1
                       ELSE Len(after)
         IN IF commas >= 1 THEN 1 + blanks + commas ELSE 0

\* re.sub(r",\s*,+", ", ", s)
RECURSIVE CommaSub(_)
CommaSub(s) ==
    IF s = <<>> THEN s
    ELSE IF CommaRunLen(s) > 0
    THEN <<",", " ">> \o CommaSub(SubSeq(s, CommaRunLen(s) + 1, Len(s)))
    ELSE <<s[1]>> \o CommaSub(Tail(s))

strip_rank(name) == CommaSub(CollapseBlanks(Strip(RankSub(name))))

\* normalize_staff_list on one entry of the staff list: the 'name' it emits
normalize_staff_list(raw) ==
    LET cleanName == strip_rank(raw)
        parts == SplitWS(cleanName)
    IN IF ~HasComma(cleanName) /\ Len(parts) >= 2
       THEN parts[Len(parts)] \o <<",", " ">> \o JoinSp(SubSeq(parts, 1, Len(parts) - 1))
       ELSE cleanName

\* mutant of ensure_last_first: the text is not sanitized first
ensure_last_first_unsanitized(name0) ==
    LET name == name0
        parts == SplitWS(name)
    IN IF name = <<>> THEN name
       ELSE IF HasComma(name)
       THEN Strip(BeforeComma(name)) \o <<",", " ">> \o Strip(AfterComma(name))
       ELSE IF Len(parts) >= 2
       THEN parts[Len(parts)] \o <<",", " ">> \o parts[1]
       ELSE name

\* ensure_last_first(name)
ensure_last_first(name0) ==
    LET name == Strip(name0)
        parts == SplitWS(name)
    IN IF name = <<>> THEN name
       ELSE IF HasComma(name)
       THEN Strip(BeforeComma(name)) \o <<",", " ">> \o Strip(AfterComma(name))
       ELSE IF Len(parts) >= 2
       THEN parts[Len(parts)] \o <<",", " ">> \o parts[1]
       ELSE name

IsLetter(c) == \E i \in 1..26 : LowerLetters[i] = c \/ UpperLetters[i] = c

\* the length of the longest prefix of s made of letters
LetterRun(s) ==
    IF \E i \in 1..Len(s) : ~IsLetter(s[i])
    THEN (CHOOSE i \in 1..Len(s) :
             ~IsLetter(s[i]) /\ \A j \in 1..(i - 1) : IsLetter(s[j])) - 1
    ELSE Len(s)

\* re.search(r",\s*([A-Za-z]+)\s+([A-Za-z]\.)", s): the groups of the leftmost
\* match, or <<>> when there is none
MiddleInitial(s) ==
    LET groups(i) ==
            LET rest == LStrip(SubSeq(s, i + 1, Len(s)))
                n == LetterRun(rest)
                after == SubSeq(rest, n + 1, Len(rest))
                tail == LStrip(after)
            IN IF /\ s[i] = ","
                  /\ n >= 1
                  /\ Len(tail) < Len(after)
                  /\ Len(tail) >= 2
                  /\ IsLetter(tail[1])
                  /\ tail[2] = "."
               THEN <<SubSeq(rest, 1, n), <<tail[1]>>>>
               ELSE <<>>
        at == { i \in 1..Len(s) : groups(i) # <<>> }
    IN IF at = {} THEN <<>> ELSE groups(CHOOSE i \in at : \A j \in at : i <= j)

\* list(dict.fromkeys(q)): duplicates dropped, the first occurrence kept
RECURSIVE Dedupe(_)
Dedupe(q) ==
    IF q = <<>> THEN <<>>
    ELSE LET front == Dedupe(SubSeq(q, 1, Len(q) - 1))
             x == q[Len(q)]
         IN IF \E i \in 1..Len(front) : front[i] = x THEN front ELSE Append(front, x)

\* _name_variants(last_first)
_name_variants(last_first) ==
    LET s == Strip(last_first)
        parts == SplitWS(s)
        last == IF HasComma(s) THEN Strip(BeforeComma(s)) ELSE parts[Len(parts)]
        first == IF HasComma(s) THEN Strip(AfterComma(s)) ELSE parts[1]
        mid == MiddleInitial(s)
    IN IF ~HasComma(s) /\ Len(parts) < 2 THEN <<s>>
       ELSE Dedupe(<<last \o <<",", " ">> \o first, first \o <<" ">> \o last>>
                   \o (IF mid # <<>>
                       THEN <<mid[1] \o <<" ">> \o mid[2] \o <<" ">> \o last>>
                       ELSE <<>>))

\* the inputs: a person, the spelling their name arrives in, and the rank
\* or title prefixes written in front of it
RankTexts == { <<>>, <<"A", "c", "t", "i", "n", "g", " ">>, <<"C", "a", "p", "t", "a", "i", "n", " ">>, <<"L", "t", ".", " ">>, <<"A", "c", "t", "i", "n", "g", " ", "C", "a", "p", "t", "a", "i", "n", " ">> }
FirstNames == { <<"J", "o", "h", "n">>, <<"A", "l">> }
MiddleNames == { <<>>, <<"A">> }
LastNames == { <<"S", "m", "i", "t", "h">>, <<"L", "i">> }
Spellings == { "Last, First", "First Last" }
NameInputs ==
    [rank : RankTexts, first : FirstNames, middle : MiddleNames,
     last : LastNames, spelling : Spellings]

\* the given names of a person, middle name or initial included
GivenNames(n) == IF n.middle = <<>> THEN n.first ELSE n.first \o <<" ">> \o n.middle

\* the text of an input
RawName(n) ==
    n.rank \o (IF n.spelling = "Last, First"
               THEN n.last \o <<",", " ">> \o GivenNames(n)
               ELSE GivenNames(n) \o <<" ">> \o n.last)

\* the same person and prefixes in the other spelling
OtherSpelling(n) ==
    [n EXCEPT !.spelling = IF @ = "Last, First" THEN "First Last" ELSE "Last, First"]

Canonicalizers == {"normalize_staff_list", "ensure_last_first"}

Canonical(fn, raw) ==
    IF fn = "normalize_staff_list" THEN normalize_staff_list(raw)
    ELSE ensure_last_first(raw)

NamesInit ==
    /\ cfn \in Canonicalizers
    /\ cin \in NameInputs
    /\ couts = <<>>
    /\ IdleExcept("calc")

\* the canonicalizer is called on the input
Canonicalize ==
    /\ cfn \in Canonicalizers
    /\ couts = <<>>
    /\ couts' = <<Canonical(cfn, RawName(cin))>>
    /\ UNCHANGED <<cfn, cin>>
    /\ UNCHANGED nonCalcVars

\* the canonicalizer is called on its own output
CanonicalizeAgain ==
    /\ cfn \in Canonicalizers
    /\ Len(couts) = 1
    /\ couts' = Append(couts, Canonical(cfn, couts[1]))
    /\ UNCHANGED <<cfn, cin>>
    /\ UNCHANGED nonCalcVars

\* the canonicalizer is called on the other spelling of the same name
CanonicalizeOther ==
    /\ cfn \in Canonicalizers
    /\ Len(couts) = 2
    /\ couts' = Append(couts, Canonical(cfn, RawName(OtherSpelling(cin))))
    /\ UNCHANGED <<cfn, cin>>
    /\ UNCHANGED nonCalcVars

NamesNext ==
    \/ Canonicalize
    \/ CanonicalizeAgain
    \/ CanonicalizeOther

SpecNames == NamesInit /\ [][NamesNext]_vars

(***************************************************************************)
(* Roster: build_roster_structure, dump_participants and the personnel     *)
(* names of run_flow                                                       *)
(***************************************************************************)

MaxRecords == 2

\* str.upper()
UpperCase(s) ==
    [i \in 1..Len(s) |->
        IF \E k \in 1..26 : LowerLetters[k] = s[i]
        THEN UpperLetters[CHOOSE k \in 1..26 : LowerLetters[k] = s[i]]
        ELSE s[i]]

\* the value a unit record holds for its unit identifier: no alias key at
\* all, a JSON null, or a string
NoKey == [k |-> "absent"]
Null == [k |-> "null"]
StrVal(s) == [k |-> "str", s |-> s]

uR1 == <<"R", "1">>
uR26 == <<"R", "2", "6">>
UnitIdPool == { NoKey, Null, StrVal(<<>>), StrVal(<<" ">>), StrVal(uR1), StrVal(uR26) }

pA == sLi \o CommaSp \o sAl
pB == sWu \o CommaSp \o sAl
pC == sBo \o CommaSp \o sAl
LtA == <<"L", "t", ".", " ">> \o pA

\* staff fields: the two crews of the example, a repeated name, and a name
\* that repeats once its rank is stripped
StaffPool == { <<>>, <<pA, pB>>, <<pB, pC>>, <<pA, pA>>, <<LtA, pA>> }
UnitRecords == [unit : UnitIdPool, staff : StaffPool]

\* the lists of requested units
IncludePool == { <<uR1, uR26>>, <<uR26, uR1>>, <<uR26>> }

\* str(g("UnitName", "unit", "Unit", "Name", default="")).strip()
unit_name(u) ==
    IF u.unit.k = "absent" THEN <<>>
    ELSE IF u.unit.k = "null" THEN Strip(<<"N", "o", "n", "e">>)
    ELSE Strip(u.unit.s)

\* [m["name"] for m in normalize_staff_list(staff_field) if m.get("name")]
RECURSIVE names_only(_)
names_only(staff_field) ==
    IF staff_field = <<>> THEN <<>>
    ELSE LET n == normalize_staff_list(Head(staff_field))
         IN (IF n # <<>> THEN <<n>> ELSE <<>>) \o names_only(Tail(staff_field))

\* the loop of build_roster_structure over the first n records
RECURSIVE RosterLoop(_, _)
RosterLoop(units, n) ==
    IF n = 0 THEN [units |-> <<>>, flat |-> <<>>, by_unit |-> <<>>]
    ELSE LET prev == RosterLoop(units, n - 1)
             u == units[n]
             name == unit_name(u)
             members == names_only(u.staff)
         IN IF name = <<>> THEN prev
            ELSE [units |-> Append(prev.units, [unit |-> name, staff |-> members]),
                  flat |-> prev.flat \o members,
                  by_unit |->
                      IF \E i \in 1..Len(prev.by_unit) : prev.by_unit[i].unit = name
                      THEN [i \in 1..Len(prev.by_unit) |->
                               IF prev.by_unit[i].unit = name
                               THEN [unit |-> name, names |-> members]
                               ELSE prev.by_unit[i]]
                      ELSE Append(prev.by_unit, [unit |-> name, names |-> members])]

\* build_roster_structure(units): by_unit is kept as the list of its items,
\* in insertion order
build_roster_structure(units) ==
    LET r == RosterLoop(units, Len(units))
    IN [units |-> r.units, flat |-> Dedupe(r.flat), by_unit |-> r.by_unit]

\* unit_map.get(u, [])
UnitMapGet(by_unit, u) ==
    IF \E i \in 1..Len(by_unit) : by_unit[i].unit = u
    THEN by_unit[CHOOSE i \in 1..Len(by_unit) : by_unit[i].unit = u].names
    ELSE <<>>

RECURSIVE Concat(_)
Concat(qs) == IF qs = <<>> THEN <<>> ELSE Head(qs) \o Concat(Tail(qs))

\* the orders in which a Python set built from q can be iterated
SetOrders(q) ==
    LET S == { q[i] : i \in 1..Len(q) }
    IN { o \in [1..Cardinality(S) -> S] : Injective(o) }

\* dump_participants: `picked` for one iteration order of UNITS
picked(roster, order) ==
    Dedupe(Concat([i \in 1..Len(order) |-> UnitMapGet(roster.by_unit, order[i])]))

\* _norm_unit(u)
_norm_unit(u) == UpperCase(Strip(u))

\* extract_personnel_with_units(roster): the {name, unit} pairs of the unit
\* objects, de-duplicated by (name, unit)
extract_personnel_with_units(roster) ==
    LET pairs(i) ==
            LET o == roster.units[i]
                keep == [j \in 1..Len(o.staff) |->
                            IF Strip(o.staff[j]) # <<>> /\ _norm_unit(o.unit) # <<>>
                            THEN <<[name |-> Strip(o.staff[j]), unit |-> _norm_unit(o.unit)]>>
                            ELSE <<>>]
            IN Concat(keep)
    IN Dedupe(Concat([i \in 1..Len(roster.units) |-> pairs(i)]))

\* mutant of filter_personnel_by_units: the unfiltered list when nothing is kept
filter_personnel_by_units_fallback(personnel, include_units) ==
    LET wanted == { _norm_unit(include_units[i]) : i \in 1..Len(include_units) }
        keep == [j \in 1..Len(personnel) |->
                    IF personnel[j].unit \in wanted THEN <<personnel[j]>> ELSE <<>>]
    IN IF include_units = <<>> \/ Concat(keep) = <<>> THEN personnel ELSE Concat(keep)

\* filter_personnel_by_units(personnel, include_units): <<>> stands for the
\* RuntimeError raised when nothing is kept
filter_personnel_by_units(personnel, include_units) ==
    LET wanted == { _norm_unit(include_units[i]) : i \in 1..Len(include_units) }
        keep == [j \in 1..Len(personnel) |->
                    IF personnel[j].unit \in wanted THEN <<personnel[j]>> ELSE <<>>]
    IN IF include_units = <<>> THEN personnel ELSE Concat(keep)

RosterInit ==
    /\ cfn = "build_roster_structure"
    /\ cin \in [units : SeqsUpTo(UnitRecords, MaxRecords), include : IncludePool]
    /\ couts = <<>>
    /\ IdleExcept("calc")

\* run_cli up to the roster it writes
BuildRoster ==
    /\ cfn = "build_roster_structure"
    /\ couts = <<>>
    /\ couts' = <<build_roster_structure(cin.units)>>
    /\ UNCHANGED <<cfn, cin>>
    /\ UNCHANGED nonCalcVars

\* dump_participants on the roster written: UNITS is a set, iterated in an
\* arbitrary order
DumpParticipants ==
    /\ cfn = "build_roster_structure"
    /\ Len(couts) = 1
    /\ \E order \in SetOrders(cin.include) :
         couts' = Append(couts, picked(couts[1], order))
    /\ UNCHANGED <<cfn, cin>>
    /\ UNCHANGED nonCalcVars

\* run_flow: personnel_names from the roster, or the error of the unit filter
PersonnelNames ==
    /\ cfn = "build_roster_structure"
    /\ Len(couts) = 2
    /\ LET people == filter_personnel_by_units(extract_personnel_with_units(couts[1]),
                                               cin.include)
       IN couts' = Append(couts,
                          IF people = <<>>
                          THEN [res |-> "raised", names |-> <<>>]
                          ELSE [res |-> "returned",
                                names |-> [j \in 1..Len(people) |-> people[j].name]])
    /\ UNCHANGED <<cfn, cin>>
    /\ UNCHANGED nonCalcVars

RosterNext ==
    \/ BuildRoster
    \/ DumpParticipants
    \/ PersonnelNames

SpecRoster == RosterInit /\ [][RosterNext]_vars

(***************************************************************************)
(* write_json of assignments_gui: the roster snapshot on disk              *)
(***************************************************************************)

MaxChunks == 2
MaxWrites == 2

\* the output path and what write_json derives from it
OutputPath == "roster.json"

\* mutant of TmpPath: the payload is written straight to the output path
TmpPath_direct(path) == path

\* tmp = path + ".tmp"
TmpPath(path) == IF path = "roster.json" THEN "roster.json.tmp" ELSE "other.tmp"

FileNames == { OutputPath, TmpPath(OutputPath) }

\* a file is absent, or holds the first `len` chunks of the serialization of
\* snapshot `ver`; the serialization of a snapshot is MaxChunks chunks long
NoFile == [ver |-> 0, len |-> 0 - 1]
Complete(f) == f.len = MaxChunks
FileStates == { NoFile } \cup [ver : {0}, len : 0..MaxChunks]

\* before the first call the output path holds nothing or a complete earlier
\* snapshot, and the temp file of an earlier failed call may lie around
FileInit ==
    /\ wfs \in [FileNames -> FileStates]
    /\ wfs[OutputPath] = NoFile \/ Complete(wfs[OutputPath])
    /\ wpc = "idle"
    /\ wpayload = 0
    /\ wcalls = 0
    /\ IdleExcept("file")

\* run_cli / do_fetch call write_json(output_path, roster)
CallWriteJson ==
    /\ wpc \in {"idle", "returned", "raised"}
    /\ wcalls < MaxWrites
    /\ wcalls' = wcalls + 1
    /\ wpayload' = wcalls + 1
    /\ wpc' = "makedirs"
    /\ UNCHANGED wfs
    /\ UNCHANGED nonFileVars

\* os.makedirs(os.path.dirname(path), exist_ok=True)
MakeDirs ==
    /\ wpc = "makedirs"
    /\ \E ok \in BOOLEAN : wpc' = IF ok THEN "open" ELSE "raised"
    /\ UNCHANGED <<wfs, wpayload, wcalls>>
    /\ UNCHANGED nonFileVars

\* open(tmp, "w"): the file is created or truncated
OpenTmp ==
    /\ wpc = "open"
    /\ \E ok \in BOOLEAN :
         IF ok
         THEN /\ wfs' = [wfs EXCEPT ![TmpPath(OutputPath)] = [ver |-> wpayload, len |-> 0]]
              /\ wpc' = "dump"
         ELSE /\ wpc' = "raised"
              /\ UNCHANGED wfs
    /\ UNCHANGED <<wpayload, wcalls>>
    /\ UNCHANGED nonFileVars

\* json.dump(payload, f, ...): the next chunk reaches the file, or the write
\* raises and the with block closes the file as it is
DumpChunk ==
    /\ wpc = "dump"
    /\ ~Complete(wfs[TmpPath(OutputPath)])
    /\ \E ok \in BOOLEAN :
         IF ok
         THEN /\ wfs' = [wfs EXCEPT ![TmpPath(OutputPath)].len = @ + 1]
              /\ UNCHANGED wpc
         ELSE /\ wpc' = "raised"
              /\ UNCHANGED wfs
    /\ UNCHANGED <<wpayload, wcalls>>
    /\ UNCHANGED nonFileVars

\* the with block ends: the file is closed with the whole payload in it
CloseTmp ==
    /\ wpc = "dump"
    /\ Complete(wfs[TmpPath(OutputPath)])
    /\ wpc' = "replace"
    /\ UNCHANGED <<wfs, wpayload, wcalls>>
    /\ UNCHANGED nonFileVars

\* os.replace(tmp, path): one atomic step (nothing to do when both are one
\* file), or an error that changes nothing
ReplaceTmp ==
    /\ wpc = "replace"
    /\ \E ok \in BOOLEAN :
         IF ok
         THEN /\ wfs' = IF TmpPath(OutputPath) = OutputPath THEN wfs
                        ELSE [wfs EXCEPT ![OutputPath] = wfs[TmpPath(OutputPath)],
                                         ![TmpPath(OutputPath)] = NoFile]
              /\ wpc' = "returned"
         ELSE /\ wpc' = "raised"
              /\ UNCHANGED wfs
    /\ UNCHANGED <<wpayload, wcalls>>
    /\ UNCHANGED nonFileVars

FileNext ==
    \/ CallWriteJson
    \/ MakeDirs
    \/ OpenTmp
    \/ DumpChunk
    \/ CloseTmp
    \/ ReplaceTmp

SpecFile == FileInit /\ [][FileNext]_vars

(***************************************************************************)
(* Typed fields: the duration and the time of day of fill_core_fields,     *)
(* fill_date_time_now and minutes_to_hours                                 *)
(***************************************************************************)

DigitChars == <<"0", "1", "2", "3", "4", "5", "6", "7", "8", "9">>
IsDigit(c) == \E i \in 1..10 : DigitChars[i] = c
DigitVal(c) == (CHOOSE i \in 1..10 : DigitChars[i] = c) - 1

\* the length of the longest prefix of s made of digits
DigitRun(s) ==
    IF \E i \in 1..Len(s) : ~IsDigit(s[i])
    THEN (CHOOSE i \in 1..Len(s) :
             ~IsDigit(s[i]) /\ \A j \in 1..(i - 1) : IsDigit(s[j])) - 1
    ELSE Len(s)

\* re.search(r"(\d+(?:\.\d+)?)", s): the text of the leftmost match, <<>>
\* when there is none
FirstNumber(s) ==
    IF \A i \in 1..Len(s) : ~IsDigit(s[i]) THEN <<>>
    ELSE LET start == CHOOSE i \in 1..Len(s) :
                          IsDigit(s[i]) /\ \A j \in 1..(i - 1) : ~IsDigit(s[j])
             t == SubSeq(s, start, Len(s))
             n == DigitRun(t)
             after == SubSeq(t, n + 1, Len(t))
             frac == IF after # <<>> /\ Head(after) = "." THEN DigitRun(Tail(after)) ELSE 0
         IN SubSeq(t, 1, IF frac > 0 THEN n + 1 + frac ELSE n)

\* the text typed into the duration field by fill_core_fields
DurationTyped(duration) ==
    LET m == FirstNumber(Strip(duration))
    IN IF m # <<>> THEN m ELSE <<"2">>

\* the value of a string of digits
RECURSIVE IntOf(_)
IntOf(ds) == IF ds = <<>> THEN 0 ELSE 10 * IntOf(SubSeq(ds, 1, Len(ds) - 1)) + DigitVal(ds[Len(ds)])

\* the number a decimal text denotes, in hundredths (digits past the second
\* decimal are cut)
Hundredths(text) ==
    LET n == DigitRun(text)
        fracText == IF n < Len(text) THEN SubSeq(text, n + 2, Len(text)) ELSE <<>>
        two == SubSeq(fracText \o <<"0", "0">>, 1, 2)
    IN 100 * IntOf(SubSeq(text, 1, n)) + IntOf(two)

\* minutes_to_hours(m), in hundredths of an hour: round(int(m) / 60.0, 2),
\* and 1.0 when int(m) raises
minutes_to_hours(m) ==
    LET t == Strip(m)
    IN IF t # <<>> /\ DigitRun(t) = Len(t)
       THEN (10 * IntOf(t) + 3) \div 6
       ELSE 100

\* the Duration texts of a work item
DurationPool == { <<"9", "0">>, <<"3", "0">>, <<"1", "2", "0">>, <<"2", " ", "h", "o", "u", "r", "s">>, <<"5", " ", "h", "o", "u", "r", "s">>, <<"1", " ", "h", "o", "u", "r", "s">>, <<>>, <<"s", "o", "o", "n">> }

\* datetime.now(): the hour and the minute of the day
Hours == 0..23
Minutes == 0..59

\* fill_core_fields: the time label selected (hour_12, quarter, ampm)
CoreTimeLabel(t) ==
    [hh |-> IF t.hour % 12 = 0 THEN 12 ELSE t.hour % 12,
     mm |-> 15 * (((t.minute + 7) \div 15) % 4),
     ampm |-> IF t.hour < 12 THEN "AM" ELSE "PM"]

\* fill_date_time_now: the time label selected
NowTimeLabel(t) ==
    [hh |-> IF t.hour % 12 = 0 THEN 12 ELSE t.hour % 12,
     mm |-> (t.minute \div 15) * 15,
     ampm |-> IF t.hour < 12 THEN "AM" ELSE "PM"]

FieldFns == {"fill_core_fields", "fill_date_time_now", "minutes_to_hours"}

\* a work item's Duration text and the time the form is filled at
FieldsInit ==
    /\ cfn \in FieldFns
    /\ cin \in [duration : DurationPool, hour : Hours, minute : Minutes]
    /\ couts = <<>>
    /\ IdleExcept("calc")

\* fill_core_fields: the duration typed and the time label selected
FillDurationAndTime ==
    /\ cfn = "fill_core_fields"
    /\ couts = <<>>
    /\ couts' = <<[hours |-> Hundredths(DurationTyped(cin.duration)),
                   label |-> CoreTimeLabel(cin)]>>
    /\ UNCHANGED <<cfn, cin>>
    /\ UNCHANGED nonCalcVars

\* fill_date_time_now: the time label selected; it fills no duration
FillDateTimeNow ==
    /\ cfn = "fill_date_time_now"
    /\ couts = <<>>
    /\ couts' = <<[label |-> NowTimeLabel(cin)]>>
    /\ UNCHANGED <<cfn, cin>>
    /\ UNCHANGED nonCalcVars

\* convert_docx_to_modules: the hours written for a row's minutes
MinutesToHours ==
    /\ cfn = "minutes_to_hours"
    /\ couts = <<>>
    /\ couts' = <<[hours |-> minutes_to_hours(cin.duration)]>>
    /\ UNCHANGED <<cfn, cin>>
    /\ UNCHANGED nonCalcVars

FieldsNext ==
    \/ FillDurationAndTime
    \/ FillDateTimeNow
    \/ MinutesToHours

SpecFields == FieldsInit /\ [][FieldsNext]_vars

(***************************************************************************)
(* Last-name extraction: _last_name and _split_first_last on names that    *)
(* carry a generational suffix                                             *)
(***************************************************************************)

\* raw.replace(",", " , ")
RECURSIVE SpaceCommas(_)
SpaceCommas(s) ==
    IF s = <<>> THEN <<>>
    ELSE (IF Head(s) = "," THEN <<" ", ",", " ">> ELSE <<Head(s)>>) \o SpaceCommas(Tail(s))

\* _split_first_last(raw): the pair (first, last)
_split_first_last(raw0) ==
    LET raw == Strip(raw0)
        s == JoinSp(SplitWS(SpaceCommas(raw)))
        parts == SplitWS(s)
        rest == Strip(AfterComma(s))
    IN IF raw = <<>> THEN <<<<>>, <<>>>>
       ELSE IF HasComma(s)
       THEN IF rest = <<>> THEN <<<<>>, _last_name(Strip(BeforeComma(s)))>>
            ELSE <<SplitWS(rest)[1], _last_name(Strip(BeforeComma(s)))>>
       ELSE IF Len(parts) = 1 THEN <<parts[1], _last_name(parts[1])>>
       ELSE <<parts[1], _last_name(JoinSp(Tail(parts)))>>

\* the names: a person, with or without a middle initial and a generational
\* suffix, written in one of the three orders
SuffixTexts == { <<>>, <<"J", "r">>, <<"S", "r", ".">>, <<"I", "I", "I">> }
NameOrders == { "Last Suffix, First", "Last, First Suffix", "First Last Suffix" }
SuffixedNames ==
    [first : {sAl, sBo}, middle : {<<>>, <<"J">>}, last : {sLi, sWu},
     suffix : SuffixTexts, order : NameOrders]

\* a text followed by a blank, nothing for an empty text
Sp(t) == IF t = <<>> THEN <<>> ELSE t \o <<" ">>

\* the text of a name
NameText(n) ==
    LET given == Sp(n.first) \o n.middle
    IN IF n.order = "Last Suffix, First"
       THEN Strip(Sp(n.last) \o n.suffix) \o CommaSp \o Strip(given)
       ELSE IF n.order = "Last, First Suffix"
       THEN n.last \o CommaSp \o Strip(Sp(Strip(given)) \o n.suffix)
       ELSE Strip(Sp(Strip(given)) \o Sp(n.last) \o n.suffix)

SplitFns == {"_last_name", "_split_first_last"}

SplitInit ==
    /\ cfn \in SplitFns
    /\ cin \in SuffixedNames
    /\ couts = <<>>
    /\ IdleExcept("calc")

\* _last_name(s) on the name
ApplyLastName ==
    /\ cfn = "_last_name"
    /\ couts = <<>>
    /\ couts' = <<[first |-> <<>>, last |-> _last_name(NameText(cin))]>>
    /\ UNCHANGED <<cfn, cin>>
    /\ UNCHANGED nonCalcVars

\* _split_first_last(raw) on the name
ApplySplitFirstLast ==
    /\ cfn = "_split_first_last"
    /\ couts = <<>>
    /\ couts' = <<[first |-> _split_first_last(NameText(cin))[1],
                   last |-> _split_first_last(NameText(cin))[2]]>>
    /\ UNCHANGED <<cfn, cin>>
    /\ UNCHANGED nonCalcVars

SplitNext ==
    \/ ApplyLastName
    \/ ApplySplitFirstLast

SpecSplit == SplitInit /\ [][SplitNext]_vars

(***************************************************************************)
(* Exceptions caught along optional paths: swallow, fill_date_time_now,    *)
(* add_personnel_from_assignments                                          *)
(***************************************************************************)

MaxTargets == 3

\* the selectors tried for the date input (candidates)
NumDateCandidates == 3

\* what one guarded action does
ActionOutcomes == {"ok", "raise"}

\* one entry of the history: the action on the target raised, the exception
\* was caught, a warning naming the target was logged, the exception left
\* the function
Event(target, raised, caught, warned) ==
    [target |-> target, raised |-> raised, caught |-> caught, warned |-> warned]

\* the surface for fill_date_time_now: per candidate selector whether an
\* enabled element exists and what fill and click/type do on it, and what
\* the time select does
DateSurfaces ==
    [cand : [1..NumDateCandidates ->
                [present : BOOLEAN, fill : ActionOutcomes, type : ActionOutcomes]],
     time : {"absent", "ok", "fallback", "raise"}]

GuardedFns == {"swallow", "fill_date_time_now", "add_personnel_from_assignments"}

GuardedInit ==
    /\ cfn \in GuardedFns
    /\ cin \in IF cfn = "fill_date_time_now" THEN DateSurfaces
               ELSE UNION { [1..n -> ActionOutcomes] : n \in 1..MaxTargets }
    /\ couts = <<>>
    /\ IdleExcept("calc")

\* with swallow(title): the next guarded block; an exception is caught and
\* logged as "[warn] title: traceback"
SwallowBlock ==
    /\ cfn = "swallow"
    /\ Len(couts) < Len(cin)
    /\ LET k == Len(couts) + 1
           raised == cin[k] = "raise"
       IN couts' = Append(couts, Event(k, raised, raised, raised))
    /\ UNCHANGED <<cfn, cin>>
    /\ UNCHANGED nonCalcVars

\* add_personnel_from_assignments: the next person; an exception is caught
\* by `except Exception: pass`
AddPerson ==
    /\ cfn = "add_personnel_from_assignments"
    /\ Len(couts) < Len(cin)
    /\ LET k == Len(couts) + 1
           raised == cin[k] = "raise"
       IN couts' = Append(couts, Event(k, raised, raised, FALSE))
    /\ UNCHANGED <<cfn, cin>>
    /\ UNCHANGED nonCalcVars

\* the date was filled by an earlier step of fill_date_time_now
DateFilled == \E i \in 1..Len(couts) : "filled" \in DOMAIN couts[i] /\ couts[i].filled

\* the date part of fill_date_time_now is over
DateOver == DateFilled \/ Len(couts) >= 2 * NumDateCandidates

\* fill_date_time_now, the two loops over the candidate selectors: fill, and
\* when no fill succeeded, click and type; an exception is caught by
\* `except Exception: pass`
FillDate ==
    /\ cfn = "fill_date_time_now"
    /\ ~DateOver
    /\ LET pos == Len(couts) + 1
           k == ((pos - 1) % NumDateCandidates) + 1
           act == IF pos <= NumDateCandidates THEN cin.cand[k].fill ELSE cin.cand[k].type
           usable == cin.cand[k].present
           raised == usable /\ act = "raise"
       IN couts' = Append(couts, [target |-> k, raised |-> raised, caught |-> raised,
                                  warned |-> FALSE, filled |-> usable /\ act = "ok"])
    /\ UNCHANGED <<cfn, cin>>
    /\ UNCHANGED nonCalcVars

\* fill_date_time_now, the time select: select_option(label), and in the
\* except branch select_option(label={...}), whose exception leaves the
\* function
SelectTime ==
    /\ cfn = "fill_date_time_now"
    /\ DateOver
    /\ \A i \in 1..Len(couts) : "propagated" \notin DOMAIN couts[i]
    /\ couts' = Append(couts, [target |-> "time",
                               raised |-> cin.time \in {"fallback", "raise"},
                               caught |-> cin.time \in {"fallback", "raise"},
                               warned |-> FALSE,
                               propagated |-> cin.time = "raise"])
    /\ UNCHANGED <<cfn, cin>>
    /\ UNCHANGED nonCalcVars

GuardedNext ==
    \/ SwallowBlock
    \/ AddPerson
    \/ FillDate
    \/ SelectTime

SpecGuarded == GuardedInit /\ [][GuardedNext]_vars

(***************************************************************************)
(* The unit filter of run_flow: filter_roster_by_units upstream, then      *)
(* extract_personnel_with_units and filter_personnel_by_units              *)
(***************************************************************************)

MaxUnits == 2

uR2 == <<"R", "2">>

\* unit objects of the fetched roster: the unit id sits under "unit" or
\* under "Unit"
KeyedUnits ==
    [key : {"unit", "Unit"}, unit : {uR1, uR26}, staff : { <<pA>>, <<pB>>, <<pA, pC>> }]

\* the --units lists: exact, to be trimmed and upper-cased, a prefix of a
\* unit id, and two units
RequestedUnits == { <<uR26>>, <<<<" ", "r", "2", "6">>>>, <<uR2>>, <<uR1, uR26>> }

\* normalize_unit(u)
normalize_unit(u) == UpperCase(Strip(u))

\* _item_unit_value(item): only the capitalised keys are looked at
_item_unit_value(item) == IF item.key = "Unit" THEN normalize_unit(item.unit) ELSE <<>>

\* s.startswith(w)
StartsWith(s, w) == Len(w) <= Len(s) /\ SubSeq(s, 1, Len(w)) = w

\* filter_roster_by_units(roster, include_units) on a roster object whose
\* "units" entry is the list of unit objects: the units that match exactly or
\* by prefix, and the unfiltered roster when none does
filter_roster_by_units(roster, include_units) ==
    LET wanted == { normalize_unit(include_units[i]) : i \in 1..Len(include_units) }
        matches(item) ==
            LET v == _item_unit_value(item)
            IN v # <<>> /\ (v \in wanted \/ \E w \in wanted : StartsWith(v, w))
        vv == SelectSeq(roster.units, matches)
    IN IF include_units = <<>> THEN roster
       ELSE IF vv # <<>> THEN [units |-> vv]
       ELSE roster

UnitsInit ==
    /\ cfn = "filter_personnel_by_units"
    /\ cin \in [roster : [units : SeqsUpTo(KeyedUnits, MaxUnits)], include : RequestedUnits]
    /\ couts = <<>>
    /\ IdleExcept("calc")

\* fetch_minicad_roster: the roster after the optional unit filtering
FetchRoster ==
    /\ cfn = "filter_personnel_by_units"
    /\ couts = <<>>
    /\ couts' = <<filter_roster_by_units(cin.roster, cin.include)>>
    /\ UNCHANGED <<cfn, cin>>
    /\ UNCHANGED nonCalcVars

\* run_flow: raw_people, people and personnel_names, or the RuntimeError of
\* filter_personnel_by_units
FilterPeople ==
    /\ cfn = "filter_personnel_by_units"
    /\ Len(couts) = 1
    /\ LET raw_people == extract_personnel_with_units(couts[1])
           people == filter_personnel_by_units(raw_people, cin.include)
       IN couts' = Append(couts,
                          IF people = <<>>
                          THEN [res |-> "raised", people |-> <<>>]
                          ELSE [res |-> "returned", people |-> people])
    /\ UNCHANGED <<cfn, cin>>
    /\ UNCHANGED nonCalcVars

UnitsNext ==
    \/ FetchRoster
    \/ FilterPeople

SpecUnits == UnitsInit /\ [][UnitsNext]_vars

(***************************************************************************)
(* The checkbox step: safe_check_by_label and the checkbox part of         *)
(* fill_training_form                                                      *)
(***************************************************************************)

MaxApplications == 2

\* the surface for one label: the role-based locator resolves, the label
\* (and the checkbox after it) resolves, the box is checked, the box carries
\* the HTML attribute `checked`, and what check() on an unchecked box and a
\* click on the label do. A freshly loaded box with the attribute is checked.
CheckboxSurfaces ==
    { s \in [role : BOOLEAN, label : BOOLEAN, checked : BOOLEAN, attr : BOOLEAN,
             check : {"ok", "raise"}, click : {"ok", "raise"}] :
        s.attr => s.checked }

\* locator.check(): nothing on a checked box, else the box is checked or
\* the call raises; the result is the box and whether the call returned
Check(s, box) ==
    IF box THEN [checked |-> TRUE, returned |-> TRUE]
    ELSE IF s.check = "ok" THEN [checked |-> TRUE, returned |-> TRUE]
    ELSE [checked |-> FALSE, returned |-> FALSE]

\* a click on the label toggles its box, or raises
LabelClick(s, box) ==
    IF s.click = "ok" THEN [checked |-> ~box, returned |-> TRUE]
    ELSE [checked |-> box, returned |-> FALSE]

\* safe_check_by_label(page, label_text) with should_check = True: the
\* role-based path, and when it raises the checkbox that follows the label
safe_check_by_label(s, box) ==
    LET fallback ==
            IF ~s.label THEN [checked |-> box, path |-> "none", acted |-> FALSE]
            ELSE IF s.attr THEN [checked |-> box, path |-> "label", acted |-> TRUE]
            ELSE [checked |-> Check(s, box).checked, path |-> "label",
                  acted |-> Check(s, box).returned]
    IN IF s.role /\ box THEN [checked |-> box, path |-> "role", acted |-> TRUE]
       ELSE IF s.role /\ Check(s, box).returned
       THEN [checked |-> Check(s, box).checked, path |-> "role", acted |-> TRUE]
       ELSE fallback

\* the checkbox part of fill_training_form for one label: check() on the
\* role-based match, else a click on the first label whose text matches
CheckboxByLabel(s, box) ==
    IF s.role
    THEN [checked |-> Check(s, box).checked, path |-> "role", acted |-> Check(s, box).returned]
    ELSE IF s.label
    THEN [checked |-> LabelClick(s, box).checked, path |-> "label",
          acted |-> LabelClick(s, box).returned]
    ELSE [checked |-> box, path |-> "none", acted |-> FALSE]

CheckboxFns == {"safe_check_by_label", "fill_training_form"}

CheckboxInit ==
    /\ cfn \in CheckboxFns
    /\ cin \in CheckboxSurfaces
    /\ couts = <<>>
    /\ IdleExcept("calc")

\* the box as the last application left it
Box == IF couts = <<>> THEN cin.checked ELSE couts[Len(couts)].checked

\* one application of safe_check_by_label
SafeCheckByLabel ==
    /\ cfn = "safe_check_by_label"
    /\ Len(couts) < MaxApplications
    /\ couts' = Append(couts, safe_check_by_label(cin, Box))
    /\ UNCHANGED <<cfn, cin>>
    /\ UNCHANGED nonCalcVars

\* one application of the checkbox part of fill_training_form
FillCheckbox ==
    /\ cfn = "fill_training_form"
    /\ Len(couts) < MaxApplications
    /\ couts' = Append(couts, CheckboxByLabel(cin, Box))
    /\ UNCHANGED <<cfn, cin>>
    /\ UNCHANGED nonCalcVars

CheckboxNext ==
    \/ SafeCheckByLabel
    \/ FillCheckbox

SpecCheckbox == CheckboxInit /\ [][CheckboxNext]_vars

(***************************************************************************)
(* Properties                                                              *)
(***************************************************************************)

\* the name as the function records it in its list of misses
RecordedName(i) ==
    IF matcher = "choose_users_and_continue" THEN Strip(names[i]) ELSE names[i]

\* C1: a miss on one name never aborts the participant step: the names are
\* attempted in order, every non-blank name has been attempted (added or
\* recorded missing) when the step ends or the continuation control is
\* activated, every missed name is in the list of misses, and the step can
\* only end in an error at the continuation control, after the last name.
C1_MissNeverAborts ==
    /\ \A i \in 1..Len(names) : i < ni => outcome[i] # "none"
    /\ (mpc \in {"returned", "raised"} \/ continueClicked) =>
          /\ ni > Len(names)
          /\ \A i \in 1..Len(names) :
                Strip(names[i]) # <<>> => outcome[i] \in {"added", "missing"}
    /\ \A i \in 1..Len(names) :
          outcome[i] = "missing" => \E k \in 1..Len(misses) : misses[k] = RecordedName(i)
    /\ Len(misses) = Cardinality({ i \in 1..Len(names) : outcome[i] = "missing" })

\* C1 witness: the continuation control was activated after a miss on one
\* name was followed by a later name being added
C1_Witness ==
    /\ continueClicked
    /\ mpc = "returned"
    /\ \E i, j \in 1..Len(names) : i < j /\ outcome[i] = "missing" /\ outcome[j] = "added"

\* C2: no candidate whose first name differs from the wanted first name is
\* activated and recorded as added
C2_NeverOtherFirstName ==
    \A i \in 1..Len(names) :
        outcome[i] = "added" =>
            Upper(_first_name_from_raw(addedItem[i])) = Upper(_first_name_from_raw(names[i]))

\* C3: when more than one listed item matches the search term and the first
\* name of the wanted person is known, the target is the first item whose
\* text, as read from the surface, contains the first name (case-insensitive
\* substring); the first match is taken when there is one match, no first
\* name, or no item whose text could be read contains it.
C3_Disambiguation ==
    (matcher = "choose_users_and_continue" /\ lastTrial.target # 0) =>
        LET first == _first_name_from_raw(names[lastTrial.ni])
            cand == lastTrial.cand
            hits == { i \in 1..Len(cand) :
                        i \notin lastTrial.unread /\ ContainsCI(cand[i], first) }
        IN IF Len(cand) > 1 /\ first # <<>> /\ hits # {}
           THEN /\ lastTrial.target \in hits
                /\ \A j \in hits : lastTrial.target <= j
           ELSE lastTrial.target = 1

\* C3 witness: "LI, BO" is listed before "Li, Al", "Li, Al" is wanted, both
\* match the term, and the second item is the target
C3_Witness ==
    /\ matcher = "choose_users_and_continue"
    /\ Len(lastTrial.cand) = 2
    /\ lastTrial.target = 2
    /\ ~ContainsCI(lastTrial.cand[1], _first_name_from_raw(names[lastTrial.ni]))
    /\ ContainsCI(lastTrial.cand[2], _first_name_from_raw(names[lastTrial.ni]))

\* C4: when the surface is still unauthenticated after the login step, the
\* run stops: no form field is filled, 'Save and Add Users' is never
\* activated and no submit control is activated.
C4_UnauthenticatedStops ==
    loginSignal = "login_page" =>
        /\ ~anyFieldFilled
        /\ saveClickedFor = {}
        /\ submitClickedFor = {}

\* C5: a scenario for which one of the core fields (Location, Duration, Date
\* Complete, Instructor) could not be filled is never submitted: neither
\* 'Save and Add Users' nor the submit control is activated for it.
C5_CoreFailureAborts ==
    \A k \in coreFailedFor : k \notin saveClickedFor /\ k \notin submitClickedFor

\* C6: the locate strategies are tried in their order, a later strategy is
\* tried only when every earlier one found no element, and the handle
\* returned or acted on is that of the first strategy for which an element
\* exists.
C6_OrderedFirstExisting ==
    /\ \A i \in 1..Len(tried) : \A j \in 1..(tried[i] - 1) : ~exists[j]
    /\ \A i \in 1..Len(tried) : i > 1 => tried[i - 1] < tried[i]
    /\ handle # 0 => /\ exists[handle]
                      /\ \A j \in 1..(handle - 1) : ~exists[j]

\* C7: when no strategy of the chain finds an element, the resolution ends
\* in an error raised to the caller, with no action performed; it never
\* returns normally.
C7_NotFoundIsError ==
    (rres \in {"returned", "raised"} /\ \A k \in 1..Len(exists) : ~exists[k]) =>
        /\ rres = "raised"
        /\ handle = 0
        /\ acted = {}

\* C8: retry calls fn at most `times` times, never calls it again after a
\* call that did not raise and returns the result of that call, and after
\* `times` failed calls raises the exception of the last one.
C8_RetryBounded ==
    lkind = "retry" =>
        /\ Len(calls) <= times
        /\ \A i \in 1..(Len(calls) - 1) : calls[i] \in Exceptions
        /\ lres = "returned" =>
              /\ calls # <<>>
              /\ calls[Len(calls)] \in Values
              /\ lout = calls[Len(calls)]
        /\ lres = "raised" =>
              /\ Len(calls) = times
              /\ \A i \in 1..times : calls[i] \in Exceptions
              /\ lout = calls[times]
        /\ lres = "running" => \A i \in 1..Len(calls) : calls[i] \in Exceptions

\* C8 witness: retry raised after `times` failed calls whose first and last
\* exceptions differ
C8_Witness ==
    /\ lkind = "retry"
    /\ lres = "raised"
    /\ times >= 2
    /\ Len(calls) = times
    /\ calls[1] # calls[times]

\* C9: every retry or polling loop terminates, whatever the surface does: it
\* returns, or it ends in a failure once its attempts or its deadline are
\* exhausted.
C9_LoopsTerminate == <>(lres \in {"returned", "raised"})

\* C9 witness: a deadline loop polled without success until its deadline
\* passed and ended in its failure outcome
C9_Witness ==
    /\ lkind \in {"goto_dashboard_open_form", "wait_for_training_form"}
    /\ deadline >= 2
    /\ now >= deadline
    /\ lres = "raised"
    /\ lout = "RuntimeError"

C12_Precedence ==
    (cfn = "_unwrap_units" /\ couts # <<>>) =>
        LET p == cin
            out == couts[1]
            W == 1..Len(WRAPPER_KEYS)
            under(i) == Get(p, WRAPPER_KEYS[i])
            lists == { i \in 1..Len(p.vals) : p.vals[i].t = "list" }
        IN /\ p.t = "list" => out.ok /\ out.val = p
           /\ p.t = "num" => ~out.ok
           /\ p.t = "dict" =>
                IF \E i \in W : under(i).t = "list"
                THEN /\ out.ok
                     /\ \E i \in W : /\ under(i).t = "list"
                                      /\ out.val = under(i)
                                      /\ \A j \in 1..(i - 1) : under(j).t # "list"
                ELSE IF \E i \in lists : lists = {i}
                THEN out.ok /\ \A i \in lists : out.val = p.vals[i]
                ELSE IF \E i \in W : /\ under(i).t = "dict"
                                      /\ \E m \in 1..Len(under(i).vals) :
                                            under(i).vals[m].t = "list"
                THEN /\ out.ok
                     /\ \E i \in W : /\ under(i).t = "dict"
                                      /\ \E m \in 1..Len(under(i).vals) :
                                            /\ under(i).vals[m].t = "list"
                                            /\ out.val = under(i).vals[m]
                ELSE ~out.ok
           /\ (p.t = "str" /\ p.parsed.t = "invalid") => ~out.ok
           /\ (p.t = "str" /\ p.parsed.t = "list") => out.ok /\ out.val = p.parsed

\* C12 witness: {"a": [unit 2], "data": {"inner": [unit 1]}} gave [unit 2],
\* the single list-valued entry, before the list nested under "data"
C12_Witness ==
    /\ cfn = "_unwrap_units"
    /\ couts # <<>>
    /\ cin = Dict(<<"a", "data">>, <<List(<<Unit2>>), Dict(<<"inner">>, <<List(<<Unit1>>)>>)>>)
    /\ couts[1].ok
    /\ couts[1].val = List(<<Unit2>>)

\* C13: the unwrapping fails with an error that carries (saves) the raw
\* payload whenever no list of records can be found, and whenever it returns
\* the value is a list of records.
C13_ShapeErrorCarriesPayload ==
    (cfn = "fetch_minicad" /\ couts # <<>>) =>
        LET out == couts[1]
        IN /\ out.res = "returned" =>
                /\ out.val.t = "list"
                /\ \A i \in 1..Len(out.val.items) : out.val.items[i].t = "dict"
           /\ out.res = "raised" => out.dumped
           /\ cin.t = "num" => out.res = "raised"

\* C14 (as stated): a string payload is parsed exactly once; a string whose
\* parsed content is again a string is refused.
C14_UnwrappedOnce ==
    (cfn = "_unwrap_units" /\ couts # <<>> /\ cin.t = "str") =>
        /\ couts[1].parses = 1
        /\ cin.parsed.t = "str" => ~couts[1].ok

\* C14 (amended): a string payload is parsed and the result resolved by all
\* the rules, the string rule included: a string holding JSON of a list
\* gives that list after one parse, a string holding a string holding JSON
\* of a list gives that list after two parses, and the payload is refused
\* when the innermost text is not JSON or holds no list.
C14_UnwrappedThrough ==
    (cfn = "_unwrap_units" /\ couts # <<>> /\ cin.t = "str") =>
        LET out == couts[1]
            q == cin.parsed
        IN /\ q.t = "invalid" => ~out.ok /\ out.parses = 1
           /\ q.t = "num" => ~out.ok /\ out.parses = 1
           /\ q.t = "list" => out.ok /\ out.val = q /\ out.parses = 1
           /\ q.t = "str" =>
                /\ out.parses = 2
                /\ q.parsed.t = "list" => out.ok /\ out.val = q.parsed
                /\ q.parsed.t \in {"invalid", "num"} => ~out.ok

\* C14 witness: a string holding a string holding JSON of [unit 1] was
\* unwrapped to [unit 1] by two parses
C14_Witness ==
    /\ cfn = "_unwrap_units"
    /\ couts # <<>>
    /\ cin = Str(Str(List(<<Unit1>>)))
    /\ couts[1].ok
    /\ couts[1].val = List(<<Unit1>>)
    /\ couts[1].parses = 2

\* C15: canonicalization is idempotent: the canonicalizer applied to its own
\* output returns that output unchanged, also for a name that carries more
\* than one rank prefix
C15_Idempotent ==
    (cfn \in Canonicalizers /\ Len(couts) >= 2) => couts[2] = couts[1]

\* C16: the "Last, First" and the "First Last" spelling of one person's name
\* canonicalize to the same text, middle name or initial included
C16_SpellingsAgree ==
    (cfn \in Canonicalizers /\ Len(couts) >= 3) => couts[3] = couts[1]

\* C17: for a non-blank name each variant builder yields at least one
\* non-blank variant, and the first variant it yields is the canonical
\* "Last, First" form of the name: the first element of the list
\* _name_variants returns, and the first variant the matcher iterates
C17_CanonicalFirst ==
    (matcher = "choose_users_and_continue" /\ mpc = "variants") =>
        LET raw == Strip(names[ni])
            listed == _name_variants(raw)
            iterated == Variants(raw) \ variants
        IN /\ \E i \in 1..Len(listed) : Strip(listed[i]) # <<>>
           /\ listed[1] = ensure_last_first(raw)
           /\ \E v \in Variants(raw) : Strip(v) # <<>>
           /\ Cardinality(iterated) = 1 => iterated = {ensure_last_first(raw)}

\* C18: the variants of a name are searched in the order canonical, inverted,
\* last-name-only: when the search just made for the current name used the
\* last name alone, no more specific variant of that name is still waiting
\* to be searched
C18_LastNameOnlyLast ==
    (/\ matcher = "choose_users_and_continue"
     /\ mpc = "variants"
     /\ lastTrial.ni = ni
     /\ lastTrial.term = _last_name(Strip(names[ni]))) =>
        \A v \in variants : v = _last_name(Strip(names[ni]))

\* C19: a candidate is recorded as added only if it was observed in the
\* 'selected' sub-surface after its activation: a name recorded as added has
\* its activated item among the selected items of a detected selected
\* sub-surface
C19_AddedOnlyIfObserved ==
    \A i \in 1..Len(names) :
        outcome[i] = "added" =>
            /\ hasSelected
            /\ \E k \in 1..Len(selectedItems) : selectedItems[k] = addedItem[i]

\* C20 (as stated): the matcher double-clicks the target first, and the
\* single click comes only as a fallback
C20_DoubleClickFirst ==
    lastTrial.target # 0 => lastTrial.acts[1][1] = "dblclick"

\* C20 (as the code has it): the matcher clicks the target first; the
\* double-click is performed only as a fallback, exactly when a selected
\* sub-surface is detected and, after the click, shows no item matching the
\* search term; no more than these two activations are made
C20_ClickFirst ==
    lastTrial.target # 0 =>
        LET acts == lastTrial.acts
            shownAfterClick ==
                IF Len(acts) = 2 /\ acts[2][2] = "move"
                THEN SubSeq(selectedItems, 1, Len(selectedItems) - 1)
                ELSE selectedItems
            seen == \E k \in 1..Len(shownAfterClick) :
                        ContainsCI(shownAfterClick[k], lastTrial.term)
        IN /\ Len(acts) \in {1, 2}
           /\ acts[1][1] = "click"
           /\ Len(acts) = 2 =>
                 /\ acts[2][1] = "dblclick"
                 /\ matcher = "choose_users_and_continue"
                 /\ hasSelected
                 /\ acts[1][2] # "move"
                 /\ ~seen
           /\ (Len(acts) = 1 /\ matcher = "choose_users_and_continue") =>
                 (~hasSelected \/ seen)

\* C20 witness: the click did not move the item, the double-click that
\* followed did, and the name was recorded as added
C20_Witness ==
    /\ matcher = "choose_users_and_continue"
    /\ lastTrial.target # 0
    /\ lastTrial.acts = <<<<"click", "noop">>, <<"dblclick", "move">>>>
    /\ outcome[lastTrial.ni] = "added"

\* C21: the participant step returns to its caller only after the transition
\* back to the host form was confirmed: when it has returned, the wait that
\* follows the continuation control saw the load complete
C21_ReturnOnlyConfirmed ==
    (continueClicked /\ mpc = "returned") => confirmed

\* C22: in every roster built, a member name appears at most once within
\* each unit's member list, in by_unit and in the unit's staff
C22_OncePerUnit ==
    (cfn = "build_roster_structure" /\ couts # <<>>) =>
        /\ \A i \in 1..Len(couts[1].by_unit) : Injective(couts[1].by_unit[i].names)
        /\ \A i \in 1..Len(couts[1].units) : Injective(couts[1].units[i].staff)

\* C23: the flat participant list holds the names of the requested units in
\* first-seen order, each name once: the roster's `flat` list over its units,
\* the participants picked by the dump for the requested units, and the
\* names run_flow hands to the matcher
C23_FlatUnique ==
    (cfn = "build_roster_structure" /\ couts # <<>>) =>
        LET roster == couts[1]
            wanted == Dedupe(Concat([i \in 1..Len(cin.include) |->
                                        UnitMapGet(roster.by_unit, cin.include[i])]))
        IN /\ roster.flat =
                  Dedupe(Concat([i \in 1..Len(roster.units) |-> roster.units[i].staff]))
           /\ Len(couts) >= 2 => couts[2] = wanted
           /\ (Len(couts) >= 3 /\ couts[3].res = "returned") =>
                 /\ Injective(couts[3].names)
                 /\ couts[3].names = wanted

\* a unit record whose unit identifier is a non-blank string
Resolvable(u) == u.unit.k = "str" /\ Strip(u.unit.s) # <<>>

\* C24: a record without a resolvable non-empty unit identifier (no alias
\* key, or an empty, blank or null value) is dropped: the roster built is the
\* roster of the other records alone
C24_DroppedNotFailed ==
    (cfn = "build_roster_structure" /\ couts # <<>>) =>
        couts[1] = build_roster_structure(SelectSeq(cin.units, Resolvable))

C26_LoadTimeErrors ==
    (ppc \in {"slice", "picked"}) =>
        /\ {"Location", "Checkbox Label", "Description", "Duration", "Date", "Time",
            "Instructor"} \subseteq columns
        /\ rows # <<>>
        /\ ppc = "picked" => scenarios # <<>>

\* the configured range of the claim, [0.25, 2.00] hours, in hundredths
ClampRange == [lo |-> 25, hi |-> 200]

\* the normalized duration the claim describes, in hundredths of an hour: a
\* bare number is minutes, "<n> hours" is n hours, the result is clamped
NormalizedDuration(text) ==
    LET n == IntOf(FirstNumber(text))
        raw == IF Contains(text, <<"h", "o", "u", "r", "s">>) THEN 100 * n
               ELSE (10 * n + 3) \div 6
    IN IF raw < ClampRange.lo THEN ClampRange.lo
       ELSE IF raw > ClampRange.hi THEN ClampRange.hi
       ELSE raw

\* C27: the value put into the duration field is the normalized, clamped
\* duration: a bare number taken as minutes ("90" gives 1.50 hours),
\* "<n> hours" taken as n, clamped to [0.25, 2.00]
C27_DurationNormalized ==
    (cfn \in {"fill_core_fields", "minutes_to_hours"} /\ couts # <<>>
        /\ FirstNumber(cin.duration) # <<>>) =>
        couts[1].hours = NormalizedDuration(cin.duration)

\* the minute of the day a time label names
LabelMinuteOfDay(label) ==
    60 * ((label.hh % 12) + (IF label.ampm = "PM" THEN 12 ELSE 0)) + label.mm

\* C28: the time label selected is the current time rounded to the nearest
\* 15-minute boundary: it lies on such a boundary and differs from the actual
\* time by at most 7 minutes (around the clock, so 11:55 PM goes with
\* 12:00 AM)
C28_NearestQuarter ==
    (cfn \in {"fill_core_fields", "fill_date_time_now"} /\ couts # <<>>) =>
        LET actual == 60 * cin.hour + cin.minute
            chosen == LabelMinuteOfDay(couts[1].label)
            diff == IF chosen >= actual THEN chosen - actual ELSE actual - chosen
        IN /\ couts[1].label.mm \in {0, 15, 30, 45}
           /\ (diff <= 7 \/ 1440 - diff <= 7)

\* C30: last-name extraction strips a trailing generational suffix in every
\* name order: the last name returned is the surname, never the suffix, and
\* _split_first_last returns the first name with it
C30_SuffixStripped ==
    (cfn \in SplitFns /\ couts # <<>>) =>
        /\ couts[1].last = cin.last
        /\ cfn = "_split_first_last" => couts[1].first = cin.first

\* the empty text and texts of blanks only
BlankInputs == { <<>>, <<" ">>, <<" ", " ">> }

\* every identity normalizer returns an empty result for the text
EmptyResult(text) ==
    /\ ensure_last_first(text) = <<>>
    /\ strip_rank(text) = <<>>
    /\ _last_name(text) = <<>>
    /\ _first_name_from_raw(text) = <<>>
    /\ _split_first_last(text) = <<<<>>, <<>>>>

\* C29: the identity normalizers are total on empty input and the matcher
\* skips such a name: for an empty or blank text each of ensure_last_first,
\* strip_rank, _last_name, _first_name_from_raw and _split_first_last returns
\* an empty result, and a blank name of the list is never searched for, never
\* reported as a miss and never given variants: it is skipped
C29_EmptyTotal ==
    /\ \A text \in BlankInputs : EmptyResult(text)
    /\ matcher = "choose_users_and_continue" =>
         \A i \in 1..Len(names) :
            Strip(names[i]) = <<>> =>
               /\ EmptyResult(names[i])
               /\ outcome[i] \in {"none", "skipped"}
               /\ i < ni => outcome[i] = "skipped"
               /\ lastTrial.ni # i
               /\ i = ni => (mpc # "variants" /\ variants = {} /\ trial_terms = <<>>)
               /\ \A k \in 1..Len(misses) : misses[k] # names[i]

\* C29 witness: a blank name of the list was skipped and the name after it
\* was searched for
C29_Witness ==
    /\ matcher = "choose_users_and_continue"
    /\ Len(names) = 2
    /\ Strip(names[1]) = <<>>
    /\ outcome[1] = "skipped"
    /\ lastTrial.ni = 2

\* C31: no error is silently discarded: every exception caught along an
\* optional path produced a recorded warning naming its target
C31_CaughtIsWarned ==
    cfn \in GuardedFns =>
        \A i \in 1..Len(couts) : couts[i].caught => couts[i].warned

\* C32: recording a submission is fail-soft: once run_flow has ended, the
\* record of every completed submission has been written, and neither a
\* failure of the write nor a failure in a later scenario made a run with a
\* completed submission end as a failed run
C32_RecordSurvives ==
    (fpc \in {"done", "fatal"} /\ results # <<>>) =>
        /\ resultsWritten
        /\ fpc = "done"

\* the requested units, trimmed and upper-cased
Requested == { _norm_unit(cin.include[i]) : i \in 1..Len(cin.include) }

\* the person is on the staff of a unit object of the fetched roster whose
\* unit id, trimmed and upper-cased, is the person's unit
OnRoster(p) ==
    \E i \in 1..Len(cin.roster.units) :
        /\ _norm_unit(cin.roster.units[i].unit) = p.unit
        /\ \E j \in 1..Len(cin.roster.units[i].staff) : cin.roster.units[i].staff[j] = p.name

\* C33: with a non-empty unit filter every person handed to the matcher
\* belongs to one of the requested units, by exact match after trim and
\* upper-case: filter_personnel_by_units raises exactly when no person of the
\* roster it is given is in a requested unit, and otherwise returns people of
\* requested units only, whatever the upstream filter let through
C33_OnlyRequestedUnits ==
    (cfn = "filter_personnel_by_units" /\ Len(couts) = 2) =>
        LET handed == couts[2].people
            given == extract_personnel_with_units(couts[1])
        IN /\ couts[2].res = "returned" =>
                /\ handed # <<>>
                /\ \A k \in 1..Len(handed) : handed[k].unit \in Requested /\ OnRoster(handed[k])
           /\ couts[2].res = "raised" <=>
                ~ \E k \in 1..Len(given) : given[k].unit \in Requested

\* C33 witness: the upstream filter let a unit through that was not
\* requested (by prefix or by falling back) and the people returned are
\* fewer than the people of the roster
C33_Witness ==
    /\ cfn = "filter_personnel_by_units"
    /\ Len(couts) = 2
    /\ couts[2].res = "returned"
    /\ \E i \in 1..Len(couts[1].units) : _norm_unit(couts[1].units[i].unit) \notin Requested
    /\ Len(couts[2].people) < Len(extract_personnel_with_units(couts[1]))

NonBlank == { i \in 1..Len(names) : Strip(names[i]) # <<>> }

\* the names recorded as missing, in list order
MissedNames ==
    LET RECURSIVE From(_)
        From(i) == IF i > Len(names) THEN <<>>
                   ELSE (IF outcome[i] = "missing" THEN <<Strip(names[i])>> ELSE <<>>)
                        \o From(i + 1)
    IN From(1)

\* C35: every non-blank name that choose_users_and_continue is done with has
\* exactly one outcome, counted in `added` or listed in `misses`: `added` is
\* the number of names recorded as added, `misses` lists the names recorded
\* as missing, and at the end of the loop added + |misses| is the number of
\* non-blank names
C35_OneOutcomePerName ==
    matcher = "choose_users_and_continue" =>
        /\ added = Cardinality({ i \in NonBlank : outcome[i] = "added" })
        /\ misses = MissedNames
        /\ \A i \in NonBlank : i < ni => outcome[i] \in {"added", "missing"}
        /\ \A i \in 1..Len(names) : i \notin NonBlank => outcome[i] \notin {"added", "missing"}
        /\ ni > Len(names) => added + Len(misses) = Cardinality(NonBlank)

\* C35 witness: the loop ended with one name added and another one missing
C35_Witness ==
    /\ matcher = "choose_users_and_continue"
    /\ ni > Len(names)
    /\ added = 1
    /\ Len(misses) = 1

\* the cleanup step was attempted
Attempted(cl, step) == \E i \in 1..Len(cl) : cl[i].step = step

\* C36: whatever stage fails once the browser session exists, the cleanup
\* runs: the failure leads into the finally block, the block attempts to
\* close the context and the browser and to stop the driver even when an
\* earlier cleanup step raised, and a pending failure still reaches the
\* caller afterwards
C36_CleanupAlwaysRuns ==
    [][/\ (err' /\ ~err /\ fpc # "start") => (fpc' = "finally" /\ cleaned' = <<>>)
       /\ fpc = "finally" =>
            /\ \A step \in {"context", "browser", "pw"} : Attempted(cleaned', step)
            /\ err' = err
            /\ fpc' = IF err THEN "fatal" ELSE "done"]_vars

\* C36 witness: a run failed after a submission, closing the context raised
\* during the cleanup, the browser was closed and the driver stopped all the
\* same, and the failure reached the caller
C36_Witness ==
    /\ fpc = "fatal"
    /\ err
    /\ results # <<>>
    /\ \E i \in 1..Len(cleaned) : cleaned[i].step = "context" /\ cleaned[i].raised
    /\ Attempted(cleaned, "browser")
    /\ Attempted(cleaned, "pw")

\* C37: by_unit, units and flat of the snapshot agree: by_unit has exactly
\* one key per entry of units, by_unit[u] is the list of the names of the
\* staff of the entry for u, and flat holds exactly the names that occur in
\* some by_unit list, also when two records carry the same unit id
C37_SnapshotAgrees ==
    (cfn = "build_roster_structure" /\ couts # <<>>) =>
        LET r == couts[1]
            listed == UNION { { r.by_unit[i].names[j] : j \in 1..Len(r.by_unit[i].names) } :
                              i \in 1..Len(r.by_unit) }
        IN /\ Len(r.by_unit) = Len(r.units)
           /\ \A i \in 1..Len(r.units) :
                 UnitMapGet(r.by_unit, r.units[i].unit) = r.units[i].staff
           /\ { r.flat[i] : i \in 1..Len(r.flat) } = listed

\* C38: the checkbox step is idempotent and never unchecks: after an
\* application that found the checkbox and whose action returned the box is
\* checked, whether it was checked before or not, on the role-based path and
\* on the label fallback alike, and a box that was checked stays checked
\* through every application
C38_CheckIdempotent ==
    cfn \in CheckboxFns =>
        \A i \in 1..Len(couts) :
            LET before == IF i = 1 THEN cin.checked ELSE couts[i - 1].checked
            IN /\ couts[i].acted => couts[i].checked
               /\ before => couts[i].checked

====
